---- MODULE Spec2Model ----
(***************************************************************************)
(* x402-solana: the client-side payment negotiation (createPaymentFetch,   *)
(* createSolanaPaymentTransaction, the payload codec) and the server-side  *)
(* verify / serve / settle sequence (X402PaymentHandler, FacilitatorClient)*)
(*                                                                         *)
(* Conventions.                                                            *)
(*  - A JavaScript string that the code only tests for truthiness or       *)
(*    copies is a TLA+ string; "" stands for every falsy value of such a   *)
(*    field (undefined, null, "").                                         *)
(*  - A network identifier is the sequence of its pieces, so that          *)
(*    startsWith / includes can be computed: "solana:XYZ" is               *)
(*    <<"solana", ":", "XYZ">>, "solana-devnet" is <<"solana", "-devnet">>.*)
(*  - An encoded text is a tagged pair: JSON.stringify(v) is <<"json", v>>,*)
(*    base64 of a text t is <<"base64", t>>; decoding anything else fails. *)
(***************************************************************************)
EXTENDS Integers, Sequences, FiniteSets, TLC

VARIABLES
    \* ---- client: one negotiation through X402Client.fetch ----
    config,               \* the X402ClientConfig given to createX402Client
    input,                \* fetch(input, init): the caller's input
    init,                 \* fetch(input, init): the caller's init
    pc,                   \* position of the negotiation
    calls,                \* transport calls issued so far: <<[input, init]>>
    inFlight,             \* transport calls issued and not yet answered
    response,             \* the first response
    paymentRequired,      \* the decoded challenge
    protocolVersion,      \* 0 (not detected yet), 1 or 2
    selectedRequirements, \* the requirement selected from the challenge
    tx,                   \* createSolanaPaymentTransaction's locals
    signedTransaction,    \* what wallet.signTransaction returned
    ledgerReads,          \* ledger (RPC) reads made so far
    signCalls,            \* transactions handed to wallet.signTransaction
    consoleErrors,        \* console.error diagnostics
    result,               \* what fetch returned or threw
    \* ---- server: one request through the handler sequence ----
    serverConfig,         \* the X402ServerConfig given to X402PaymentHandler
    facilitatorClient,    \* the handler's FacilitatorClient
    reqHeaders,           \* the inbound request's headers
    spc,                  \* position of the handler
    paymentHeader,        \* what extractPayment returned
    paymentRequirements,  \* what createPaymentRequirements returned
    verified,             \* what verifyPayment returned
    settlement,           \* what settlePayment returned
    handlerCalls,         \* the handler's methods called by the route, in order
    logicRuns,            \* the outcome of each run of the protected logic
    facilitatorCalls,     \* HTTP requests sent to the facilitator
    tokenRequests,        \* calls of getOrGenerateJwt
    serverErrors,         \* console.error diagnostics of the server
    gateway,              \* a direct call of a FacilitatorClient operation
    httpResponse,         \* the handler's answer to the request
    \* ---- a single call of one of the library's functions ----
    libraryCall,          \* the function called, its arguments and its value
    \* ---- the route over several requests ----
    served,               \* the requests the route has answered, in order
    \* ---- a second negotiation through the same client ----
    suspended             \* the locals of the negotiation that is not running

clientVars == <<config, input, init, pc, calls, inFlight, response,
                paymentRequired, protocolVersion, selectedRequirements, tx,
                signedTransaction, ledgerReads, signCalls, consoleErrors,
                result>>

serverVars == <<serverConfig, facilitatorClient, reqHeaders, spc, paymentHeader,
                paymentRequirements, verified, settlement, logicRuns,
                handlerCalls, facilitatorCalls, tokenRequests, serverErrors,
                gateway, httpResponse>>

vars == <<clientVars, serverVars, libraryCall, served, suspended>>

\* what a step of the client, and a step of the server, leaves alone
notClient == <<serverVars, libraryCall, served, suspended>>
notServer == <<clientVars, libraryCall, served, suspended>>

----------------------------------------------------------------------------
\* Bounds of the model

\* longest accepts list of a challenge
MaxAccepts == 2
\* requests one route answers, one after the other
MaxRequests == 2
\* largest amount (atomic units) a requirement asks for
MaxAmount == 3

----------------------------------------------------------------------------
\* Network identifiers (src/types/index.ts, x402-protocol part)

SOLANA_MAINNET_CAIP2 == <<"solana", ":", "5eykt4UsFv8P8NJdTREpY1vzqKqZKvdp">>
SOLANA_DEVNET_CAIP2 == <<"solana", ":", "EtWTRABZaYq6iMfeYKouRu166VU2xqa1">>
Solana == <<"solana">>
SolanaDevnet == <<"solana", "-devnet">>
Eip155Base == <<"eip155", ":", "8453">>

StartsWithSolanaColon(network) ==
    Len(network) >= 2 /\ network[1] = "solana" /\ network[2] = ":"

\* the check of the simple names alone
IsSimpleSolanaName(network) ==
    network = Solana \/ network = SolanaDevnet

isSolanaNetwork(network) ==
    network = Solana \/ network = SolanaDevnet \/ StartsWithSolanaColon(network)

isSolanaMainnet(network) ==
    network = Solana \/ network = SOLANA_MAINNET_CAIP2

isSolanaDevnet(network) ==
    network = SolanaDevnet \/ network = SOLANA_DEVNET_CAIP2

----------------------------------------------------------------------------
\* Texts and their encodings

Null == <<"null">>
EmptyString == <<"str", "">>
Str(s) == <<"str", s>>

\* JavaScript truthiness of a header value (string or null)
Truthy(t) == t # Null /\ t # EmptyString

JSONstringify(v) == <<"json", v>>
IsJSON(t) == Len(t) = 2 /\ t[1] = "json"
JSONparse(t) == t[2]

Base64Encode(t) == <<"base64", t>>
IsBase64(t) == Len(t) = 2 /\ t[1] = "base64"
safeBase64Decode(t) == t[2]

\* Header names are matched case-insensitively by a Headers object
LowerCase(name) ==
    CASE name = "PAYMENT-REQUIRED" -> "payment-required"
      [] name = "PAYMENT-SIGNATURE" -> "payment-signature"
      [] name = "Payment-Signature" -> "payment-signature"
      [] name = "X-PAYMENT" -> "x-payment"
      [] name = "X-Payment" -> "x-payment"
      [] name = "Content-Type" -> "content-type"
      [] OTHER -> name

\* Headers.get(name) on a Headers object holding the <<name, value>> pairs h
HeadersGet(h, name) ==
    IF \E p \in h : p[1] = LowerCase(name)
    THEN (CHOOSE p \in h : p[1] = LowerCase(name))[2]
    ELSE Null

\* The decimal string of n, and BigInt(s) for the strings of the model
IsIntegerString(s) == \E n \in 0..(MaxAmount + 1) : ToString(n) = s
BigInt(s) == CHOOSE n \in 0..(MaxAmount + 1) : ToString(n) = s

----------------------------------------------------------------------------
\* Payment requirements and challenges

Requirement(scheme, network, amount, maxAmountRequired, payTo, asset, feePayer) ==
    [scheme |-> scheme, network |-> network, amount |-> amount,
     maxAmountRequired |-> maxAmountRequired, payTo |-> payTo, asset |-> asset,
     maxTimeoutSeconds |-> 60,
     extra |-> [feePayer |-> feePayer, description |-> "Premium API",
                mimeType |-> "", resource |-> ""]]

UnsetRequirement == Requirement("", <<>>, "", "", "", "", "")

BaseRequirement(network, amount) ==
    Requirement("exact", network, amount, "", "Treasury", "UsdcMint", "FeePayer")

\* the entries challenges of several entries are made of
ListRequirements ==
    { Requirement("exact", Eip155Base, "1", "", "0xTreasury", "0xUsdc", ""),
      Requirement("upto", SolanaDevnet, "1", "", "Treasury", "UsdcMint", "FeePayer"),
      BaseRequirement(SOLANA_DEVNET_CAIP2, ToString(MaxAmount)),
      BaseRequirement(Solana, "1") }

\* requirements offered alone
SingleRequirements ==
    { BaseRequirement(n, ToString(a)) :
        n \in {SolanaDevnet, SOLANA_MAINNET_CAIP2, <<"solana", ":", "unknown">>},
        a \in 1..MaxAmount }
    \cup
    { Requirement("exact", SolanaDevnet, "", "2", "Treasury", "UsdcMint", "FeePayer"),
      Requirement("exact", SolanaDevnet, "", "", "Treasury", "UsdcMint", "FeePayer"),
      Requirement("exact", SolanaDevnet, "1.5", "", "Treasury", "UsdcMint", "FeePayer"),
      Requirement("exact", SolanaDevnet, "1", "", "", "UsdcMint", "FeePayer"),
      Requirement("exact", SolanaDevnet, "1", "", "Treasury", "", "FeePayer"),
      Requirement("exact", SolanaDevnet, "1", "", "Treasury", "UsdcMint", ""),
      Requirement("exact", SolanaDevnet, "1", "", "not-base58", "UsdcMint", "FeePayer") }

AcceptsLists ==
    UNION { [1..k -> ListRequirements] : k \in 0..MaxAccepts }
    \cup { <<r>> : r \in SingleRequirements }

PaymentRequiredOf(version, hasAccepts, accepts) ==
    [x402Version |-> version, hasAccepts |-> hasAccepts, accepts |-> accepts,
     error |-> "Payment required"]

UnsetPaymentRequired == PaymentRequiredOf(0, FALSE, <<>>)

\* a 402 body that is JSON but no challenge: {message: 'Payment required'}
MessageOnly == PaymentRequiredOf(0, FALSE, <<>>)

Challenges(version) ==
    { PaymentRequiredOf(version, TRUE, a) : a \in AcceptsLists }
    \cup { PaymentRequiredOf(version, FALSE, <<>>) }

----------------------------------------------------------------------------
\* The client's configuration and the caller's requests

\* wallet adapters: address and/or publicKey, with or without signTransaction
Wallets ==
    { [address |-> "Payer", publicKey |-> "", canSign |-> TRUE],
      [address |-> "", publicKey |-> "PayerKey", canSign |-> TRUE],
      [address |-> "", publicKey |-> "", canSign |-> TRUE],
      [address |-> "Payer", publicKey |-> "", canSign |-> FALSE] }

DefaultWallet == [address |-> "Payer", publicKey |-> "", canSign |-> TRUE]

\* an optional bigint is <<>> when the property is not given, <<n>> otherwise
ClientConfig(w, network, maxPaymentAmount, amount) ==
    [wallet |-> w, network |-> network, rpcUrl |-> "",
     maxPaymentAmount |-> maxPaymentAmount, amount |-> amount]

\* the ceiling the configurations of the model ask for
Ceiling == MaxAmount - 1

ClientConfigs ==
    { ClientConfig(w, SolanaDevnet, <<>>, <<>>) : w \in Wallets }
    \cup { ClientConfig(DefaultWallet, Solana, <<>>, <<>>) }
    \cup { ClientConfig(DefaultWallet, SolanaDevnet, m, <<>>) :
             m \in {<<0>>, <<Ceiling>>} }
    \cup { ClientConfig(DefaultWallet, n, <<>>, <<Ceiling>>) :
             n \in {Solana, SolanaDevnet} }

getDefaultRpcUrl(network) ==
    IF isSolanaMainnet(network) THEN "https://api.mainnet-beta.solana.com"
    ELSE "https://api.devnet.solana.com"

\* X402Client.constructor: the arguments it passes to createPaymentFetch
ClientMaxValue(c) ==
    IF c.maxPaymentAmount # <<>> /\ c.maxPaymentAmount[1] # 0
    THEN c.maxPaymentAmount[1] ELSE 0

ClientRpcUrl(c) == IF c.rpcUrl # "" THEN c.rpcUrl ELSE getDefaultRpcUrl(c.network)

\* the closure createPaymentFetch returns
maxValue == ClientMaxValue(config)
wallet == config.wallet
rpcUrl == ClientRpcUrl(config)

\* RequestInit.headers in its three representations
CallerHeaders ==
    { [kind |-> "none", entries |-> {}],
      [kind |-> "object", entries |-> {<<"Content-Type", Str("application/json")>>}],
      [kind |-> "Headers", entries |-> {<<"content-type", Str("application/json")>>}],
      [kind |-> "array", entries |-> {<<"Content-Type", Str("application/json")>>}] }

NoInit == [given |-> FALSE, method |-> "", body |-> "",
           headers |-> [kind |-> "none", entries |-> {}]]

Inits ==
    {NoInit} \cup
    { [given |-> TRUE, method |-> "POST", body |-> "{test:data}", headers |-> h] :
        h \in CallerHeaders }

\* input: a URL string, or a Request object with that url
Inputs == { [isString |-> TRUE, url |-> "https://test-api.com/endpoint"],
            [isString |-> FALSE, url |-> "https://test-api.com/endpoint"] }

UrlOf(in) == in.url

----------------------------------------------------------------------------
\* Responses of the transport

ResponseOf(status, headers, body) ==
    [status |-> status, headers |-> headers, body |-> body]

NoResponse == ResponseOf(0, {}, Null)

Non402Responses ==
    { ResponseOf(st, {}, JSONstringify(MessageOnly)) : st \in {200, 404, 500} }

\* a 402 whose PAYMENT-REQUIRED header carries the challenge (v2)
HeaderChallenges ==
    { ResponseOf(402,
                 {<<"payment-required", Base64Encode(JSONstringify(c))>>},
                 JSONstringify(MessageOnly)) : c \in Challenges(2) }

\* a 402 without that header, the challenge in the body (v1)
BodyChallenges ==
    { ResponseOf(402, {}, JSONstringify(c)) : c \in Challenges(1) }

\* a 402 whose PAYMENT-REQUIRED header is there and empty, or not decodable,
\* and a 402 whose body is no JSON
OddChallenges ==
    { ResponseOf(402, {<<"payment-required", EmptyString>>}, JSONstringify(c)) :
        c \in { PaymentRequiredOf(1, TRUE, <<r>>) :
                  r \in {BaseRequirement(SolanaDevnet, "1")} } }
    \cup { ResponseOf(402, {<<"payment-required", Str("%%%")>>},
                      JSONstringify(MessageOnly)),
           ResponseOf(402, {<<"payment-required", Base64Encode(Str("{"))>>},
                      JSONstringify(MessageOnly)),
           ResponseOf(402, {}, Str("<html>Payment required</html>")) }

FirstResponses ==
    Non402Responses \cup HeaderChallenges \cup BodyChallenges \cup OddChallenges

RetryResponses ==
    { ResponseOf(200, {<<"payment-response", Str("settled")>>},
                 JSONstringify(MessageOnly)),
      ResponseOf(402, {<<"payment-required",
                         Base64Encode(JSONstringify(MessageOnly))>>},
                 JSONstringify(MessageOnly)),
      ResponseOf(500, {}, Str("Internal Server Error")) }

\* what fetch gave its caller
NoResult == [kind |-> "none", response |-> NoResponse, error |-> ""]
Returned(r) == [kind |-> "returned", response |-> r, error |-> ""]
Threw(e) == [kind |-> "threw", response |-> NoResponse, error |-> e]

----------------------------------------------------------------------------
\* Transactions (createSolanaPaymentTransaction)

DEFAULT_COMPUTE_UNIT_LIMIT == 7000
DEFAULT_COMPUTE_UNIT_PRICE_MICROLAMPORTS == 1

TOKEN_PROGRAM_ID == "TokenkegQfeZyiNwAJbNbGKPFXCWuBvf9Ss623VQ5DA"
TOKEN_2022_PROGRAM_ID == "TokenzQdBNbLqP5VEhdkAS6EPFLC1PHnBqCXEpPxuEb"
COMPUTE_BUDGET_PROGRAM_ID == "ComputeBudget111111111111111111111111111111"

NoKeys == [source |-> <<>>, mint |-> "", destination |-> <<>>, owner |-> ""]

Instruction(programId, type, keys, value, decimals) ==
    [programId |-> programId, type |-> type, keys |-> keys, value |-> value,
     decimals |-> decimals]

setComputeUnitLimit(units) ==
    Instruction(COMPUTE_BUDGET_PROGRAM_ID, "SetComputeUnitLimit", NoKeys, units, 0)

setComputeUnitPrice(microLamports) ==
    Instruction(COMPUTE_BUDGET_PROGRAM_ID, "SetComputeUnitPrice", NoKeys,
                microLamports, 0)

createTransferCheckedInstruction(source, mint, destination, owner, amount, decimals, programId) ==
    Instruction(programId, "TransferChecked",
                [source |-> source, mint |-> mint, destination |-> destination,
                 owner |-> owner],
                amount, decimals)

\* the associated token account of owner for mint under programId
getAssociatedTokenAddress(mint, owner, programId) == <<"ata", mint, owner, programId>>

\* new PublicKey(s) throws on a string that is no base58 key
IsPublicKey(s) == s \notin {"", "not-base58"}

Transaction(payerKey, recentBlockhash, instructions, signatures) ==
    [message |-> [payerKey |-> payerKey, recentBlockhash |-> recentBlockhash,
                  instructions |-> instructions],
     signatures |-> signatures]

UnsetTransaction == Transaction("", "", <<>>, {})

UnsetTx ==
    [step |-> "", feePayer |-> "", walletAddress |-> "", instructions |-> <<>>,
     mintOwner |-> "", programId |-> "", decimals |-> 0, sourceAta |-> <<>>,
     destinationAta |-> <<>>, sourceAtaInfo |-> "", destAtaInfo |-> "",
     transaction |-> UnsetTransaction]

\* what connection.getAccountInfo returns for a token account
AccountInfos == {"account", "null"}

\* what the ledger may hold: the program owning the mint account ("" when the
\* account does not exist), and the mint's decimals
MintOwners == {TOKEN_PROGRAM_ID, TOKEN_2022_PROGRAM_ID, "11111111111111111111111111111111", ""}
MintDecimals == {6, 9}

\* transaction.serialize() and Buffer's base64 of the bytes
Serialize(t) == <<"bytes", t>>

----------------------------------------------------------------------------
\* The payload codec (src/utils/helpers.ts)

Resource(url, description, mimeType) ==
    [url |-> url, description |-> description, mimeType |-> mimeType]

\* a variant of the v2 payload that names the resource the requirement names
createPaymentPayloadOfOfferedResource(transaction, requirements, resourceUrl) ==
    Base64Encode(JSONstringify(
        [x402Version |-> 2,
         fields |-> {"x402Version", "resource", "accepted", "payload"},
         resource |-> Resource(requirements.extra.resource,
                               requirements.extra.description,
                               IF requirements.extra.mimeType # ""
                               THEN requirements.extra.mimeType
                               ELSE "application/json"),
         accepted |-> requirements,
         scheme |-> "", network |-> <<>>,
         payload |-> [transaction |-> Base64Encode(Serialize(transaction))]]))

\* createPaymentPayload: the v2 payload, for the PAYMENT-SIGNATURE header
createPaymentPayload(transaction, requirements, resourceUrl) ==
    Base64Encode(JSONstringify(
        [x402Version |-> 2,
         fields |-> {"x402Version", "resource", "accepted", "payload"},
         resource |-> Resource(resourceUrl,
                               requirements.extra.description,
                               IF requirements.extra.mimeType # ""
                               THEN requirements.extra.mimeType
                               ELSE "application/json"),
         accepted |-> requirements,
         scheme |-> "", network |-> <<>>,
         payload |-> [transaction |-> Base64Encode(Serialize(transaction))]]))

\* a variant of the v1 payload that carries the v2 members too
createPaymentPayloadV1Nested(transaction, requirements) ==
    createPaymentPayload(transaction, requirements, "")

\* createPaymentPayloadV1: the flat v1 payload, for the X-PAYMENT header
createPaymentPayloadV1(transaction, requirements) ==
    Base64Encode(JSONstringify(
        [x402Version |-> 1,
         fields |-> {"x402Version", "scheme", "network", "payload"},
         resource |-> Resource("", "", ""),
         accepted |-> UnsetRequirement,
         scheme |-> requirements.scheme,
         network |-> requirements.network,
         payload |-> [transaction |-> Base64Encode(Serialize(transaction))]]))

----------------------------------------------------------------------------
\* createPaymentFetch: the negotiated fetch (src/server/payment-handler.ts,
\* payment-interceptor part)

\* a variant that accepts any network
SuitableAnyNetwork(req) == req.scheme = "exact"

\* a variant that accepts the networks of the configured network's type only
SuitableOnConfiguredNetwork(req) ==
    /\ req.scheme = "exact"
    /\ isSolanaNetwork(req.network)
    /\ isSolanaMainnet(req.network) <=> isSolanaMainnet(config.network)

\* lines 250-251: req.scheme === "exact" && isSolanaNetwork(req.network)
Suitable(req) == req.scheme = "exact" /\ isSolanaNetwork(req.network)

\* a variant of the search that keeps the last suitable entry
FindLastSuitable(accepts) ==
    IF \E i \in 1..Len(accepts) : Suitable(accepts[i])
    THEN CHOOSE i \in 1..Len(accepts) :
            /\ Suitable(accepts[i])
            /\ \A j \in (i + 1)..Len(accepts) : ~Suitable(accepts[j])
    ELSE 0

\* line 249, Array.prototype.find: the index of the first suitable entry, 0
\* if there is none
FindSuitable(accepts) ==
    IF \E i \in 1..Len(accepts) : Suitable(accepts[i])
    THEN CHOOSE i \in 1..Len(accepts) :
            /\ Suitable(accepts[i])
            /\ \A j \in 1..(i - 1) : ~Suitable(accepts[j])
    ELSE 0

\* paymentRequired.accepts || []
ParsedPaymentRequirements(pr) == IF pr.hasAccepts THEN pr.accepts ELSE <<>>

\* the string handed to BigInt: amount || maxAmountRequired || "0"
PaymentAmountString(req) ==
    IF req.amount # "" THEN req.amount
    ELSE IF req.maxAmountRequired # "" THEN req.maxAmountRequired
    ELSE "0"

\* a variant that rejects an amount equal to the ceiling too
ReachesMaxValue(limit, paymentAmount) == limit > 0 /\ paymentAmount >= limit

ExceedsMaxValue(limit, paymentAmount) == limit > 0 /\ paymentAmount > limit

\* a variant that attaches every payment under the legacy name
HeaderNameLegacy(version) == "X-PAYMENT"

\* the header the v2 / v1 branch attaches
HeaderNameFor(version) == IF version = 2 THEN "PAYMENT-SIGNATURE" ELSE "X-PAYMENT"

PaymentHeaderFor(version, transaction, req, resourceUrl) ==
    IF version = 2 THEN createPaymentPayload(transaction, req, resourceUrl)
    ELSE createPaymentPayloadV1(transaction, req)

\* {...(init?.headers || {})}: the own enumerable properties of the headers
SpreadHeaders(h) ==
    CASE h.kind = "object" -> h.entries
      [] h.kind = "Headers" -> {}
      [] h.kind = "array" -> { <<"0", <<"pair", e[1], e[2]>>>> : e \in h.entries }
      [] OTHER -> {}

\* {...init, headers: {...(init?.headers || {}), [headerName]: paymentHeader}}
NewInit(i, headerName, header) ==
    [given |-> TRUE, method |-> i.method, body |-> i.body,
     headers |-> [kind |-> "object",
                  entries |-> { e \in SpreadHeaders(i.headers) : e[1] # headerName }
                              \cup {<<headerName, header>>}]]

\* a variant that takes every client or server error for a payment challenge
Is402OrError(status) == status >= 400

\* line 215: response.status !== 402
Is402(status) == status = 402

Fail(e) ==
    /\ pc' = "FAILED"
    /\ result' = Threw(e)

\* line 211: fetchFn(input, init) is called
InitialRequest ==
    /\ pc = "INIT"
    /\ calls' = Append(calls, [input |-> input, init |-> init])
    /\ inFlight' = inFlight + 1
    /\ pc' = "REQUESTED"
    /\ UNCHANGED <<config, input, init, response, paymentRequired,
                   protocolVersion, selectedRequirements, tx, signedTransaction,
                   ledgerReads, signCalls, consoleErrors, result>>
    /\ UNCHANGED notClient

\* lines 211-217: the first response arrives; anything but a 402 is returned
InitialResponse ==
    /\ pc = "REQUESTED"
    /\ \E r \in FirstResponses :
         /\ response' = r
         /\ IF ~Is402(r.status)
            THEN pc' = "DONE" /\ result' = Returned(r)
            ELSE pc' = "CHALLENGED" /\ UNCHANGED result
    /\ inFlight' = inFlight - 1
    /\ UNCHANGED <<config, input, init, calls, paymentRequired, protocolVersion,
                   selectedRequirements, tx, signedTransaction, ledgerReads,
                   signCalls, consoleErrors>>
    /\ UNCHANGED notClient

\* line 211: fetchFn rejects; the rejection is the negotiated fetch's
InitialRequestFails ==
    /\ pc = "REQUESTED"
    /\ inFlight' = inFlight - 1
    /\ Fail("fetch failed")
    /\ UNCHANGED <<config, input, init, calls, response, paymentRequired,
                   protocolVersion, selectedRequirements, tx, signedTransaction,
                   ledgerReads, signCalls, consoleErrors>>
    /\ UNCHANGED notClient

\* lines 221-242: the protocol version is detected and the challenge decoded
DetectVersion ==
    /\ pc = "CHALLENGED"
    /\ LET paymentRequiredHeader == HeadersGet(response.headers, "PAYMENT-REQUIRED")
       IN IF Truthy(paymentRequiredHeader)
          THEN IF IsBase64(paymentRequiredHeader)
                  /\ IsJSON(safeBase64Decode(paymentRequiredHeader))
               THEN /\ paymentRequired' =
                         JSONparse(safeBase64Decode(paymentRequiredHeader))
                    /\ protocolVersion' = 2
                    /\ pc' = "SELECTING"
                    /\ UNCHANGED result
               ELSE /\ Fail("PAYMENT-REQUIRED header cannot be decoded")
                    /\ UNCHANGED <<paymentRequired, protocolVersion>>
          ELSE IF IsJSON(response.body)
               THEN /\ paymentRequired' = JSONparse(response.body)
                    /\ protocolVersion' = 1
                    /\ pc' = "SELECTING"
                    /\ UNCHANGED result
               ELSE /\ Fail("response body is not JSON")
                    /\ UNCHANGED <<paymentRequired, protocolVersion>>
    /\ UNCHANGED <<config, input, init, calls, inFlight, response,
                   selectedRequirements, tx, signedTransaction, ledgerReads,
                   signCalls, consoleErrors>>
    /\ UNCHANGED notClient

\* a variant of the selection that goes on to the assembly without the
\* ceiling check
SelectRequirementsUnchecked ==
    /\ pc = "SELECTING"
    /\ LET parsedPaymentRequirements == ParsedPaymentRequirements(paymentRequired)
           found == FindSuitable(parsedPaymentRequirements)
       IN IF found = 0
          THEN /\ consoleErrors' = Append(consoleErrors,
                     [ n \in 1..Len(parsedPaymentRequirements) |->
                         parsedPaymentRequirements[n].network ])
               /\ Fail("No suitable Solana payment requirements found")
               /\ UNCHANGED <<selectedRequirements, tx>>
          ELSE /\ selectedRequirements' = parsedPaymentRequirements[found]
               /\ pc' = "BUILDING"
               /\ tx' = [UnsetTx EXCEPT !.step = "start"]
               /\ UNCHANGED <<consoleErrors, result>>
    /\ UNCHANGED <<config, input, init, calls, inFlight, response, paymentRequired,
                   protocolVersion, signedTransaction, ledgerReads, signCalls>>
    /\ UNCHANGED notClient

\* lines 244-260: the first suitable requirement is selected
SelectRequirements ==
    /\ pc = "SELECTING"
    /\ LET parsedPaymentRequirements == ParsedPaymentRequirements(paymentRequired)
           found == FindSuitable(parsedPaymentRequirements)
       IN IF found = 0
          THEN /\ consoleErrors' = Append(consoleErrors,
                     [ n \in 1..Len(parsedPaymentRequirements) |->
                         parsedPaymentRequirements[n].network ])
               /\ Fail("No suitable Solana payment requirements found")
               /\ UNCHANGED selectedRequirements
          ELSE /\ selectedRequirements' = parsedPaymentRequirements[found]
               /\ pc' = "CEILING"
               /\ UNCHANGED <<consoleErrors, result>>
    /\ UNCHANGED <<config, input, init, calls, inFlight, response, paymentRequired,
                   protocolVersion, tx, signedTransaction, ledgerReads, signCalls>>
    /\ UNCHANGED notClient

\* lines 262-273: the amount is checked against maxValue
CheckMaxValue ==
    /\ pc = "CEILING"
    /\ LET amountString == PaymentAmountString(selectedRequirements)
       IN IF ~IsIntegerString(amountString)
          THEN Fail("Cannot convert to a BigInt") /\ UNCHANGED tx
          ELSE IF ExceedsMaxValue(maxValue, BigInt(amountString))
          THEN Fail("Payment amount exceeds maximum allowed") /\ UNCHANGED tx
          ELSE /\ pc' = "BUILDING"
               /\ tx' = [UnsetTx EXCEPT !.step = "start"]
               /\ UNCHANGED result
    /\ UNCHANGED <<config, input, init, calls, inFlight, response, paymentRequired,
                   protocolVersion, selectedRequirements, signedTransaction,
                   ledgerReads, signCalls, consoleErrors>>
    /\ UNCHANGED notClient

----------------------------------------------------------------------------
\* createSolanaPaymentTransaction (src/server/payment-handler.ts,
\* transaction-builder part), called at line 281

BuildFrame == <<config, input, init, calls, inFlight, response, paymentRequired,
                protocolVersion, selectedRequirements, consoleErrors, notClient>>

\* wallet?.publicKey?.toString() || wallet?.address
WalletAddress(w) == IF w.publicKey # "" THEN w.publicKey ELSE w.address

\* the first failing check of lines 531-555, "" when all pass
ValidationError(w, req) ==
    IF req.extra.feePayer = ""
    THEN "Missing facilitator feePayer in payment requirements (extra.feePayer)."
    ELSE IF ~IsPublicKey(req.extra.feePayer) THEN "Invalid public key input"
    ELSE IF WalletAddress(w) = ""
    THEN "Missing connected Solana wallet address or publicKey"
    ELSE IF ~IsPublicKey(WalletAddress(w)) THEN "Invalid public key input"
    ELSE IF req.payTo = "" THEN "Missing payTo in payment requirements"
    ELSE IF ~IsPublicKey(req.payTo) THEN "Invalid public key input"
    ELSE IF req.asset = "" THEN "Missing token mint for SPL transfer"
    ELSE IF ~IsPublicKey(req.asset) THEN "Invalid public key input"
    ELSE ""

\* a variant that builds against the classic token program whatever the mint
ClassicTokenProgram(mintOwner) == TOKEN_PROGRAM_ID

\* lines 574-577: the token program the transaction is built against
ProgramIdFor(mintOwner) ==
    IF mintOwner = TOKEN_2022_PROGRAM_ID THEN TOKEN_2022_PROGRAM_ID
    ELSE TOKEN_PROGRAM_ID

\* the two compute budget instructions with the price set before the limit
ComputeBudgetPriceFirst ==
    << setComputeUnitPrice(DEFAULT_COMPUTE_UNIT_PRICE_MICROLAMPORTS),
       setComputeUnitLimit(DEFAULT_COMPUTE_UNIT_LIMIT) >>

\* lines 557-570: the two compute budget instructions, pushed first
ComputeBudgetInstructions ==
    << setComputeUnitLimit(DEFAULT_COMPUTE_UNIT_LIMIT),
       setComputeUnitPrice(DEFAULT_COMPUTE_UNIT_PRICE_MICROLAMPORTS) >>

\* lines 529-577: the inputs are validated, the compute budget instructions
\* pushed, and the mint account read for its owner
BuildStart ==
    /\ pc = "BUILDING" /\ tx.step = "start"
    /\ LET e == ValidationError(wallet, selectedRequirements)
       IN IF e # ""
          THEN Fail(e) /\ UNCHANGED <<tx, ledgerReads>>
          ELSE \E owner \in MintOwners :
                 /\ ledgerReads' = Append(ledgerReads, "getAccountInfo(mint)")
                 /\ tx' = [tx EXCEPT !.step = "getMint",
                                     !.feePayer = selectedRequirements.extra.feePayer,
                                     !.walletAddress = WalletAddress(wallet),
                                     !.instructions = ComputeBudgetInstructions,
                                     !.mintOwner = owner,
                                     !.programId = ProgramIdFor(owner)]
                 /\ UNCHANGED <<pc, result>>
    /\ UNCHANGED <<signedTransaction, signCalls>>
    /\ UNCHANGED BuildFrame

\* line 580: getMint reads the mint under programId; it fails when the
\* account is missing or owned by another program
BuildGetMint ==
    /\ pc = "BUILDING" /\ tx.step = "getMint"
    /\ ledgerReads' = Append(ledgerReads, "getMint(mint)")
    /\ IF tx.mintOwner = tx.programId
       THEN \E d \in MintDecimals :
              /\ tx' = [tx EXCEPT !.step = "sourceAta", !.decimals = d]
              /\ UNCHANGED <<pc, result>>
       ELSE /\ Fail(IF tx.mintOwner = "" THEN "TokenAccountNotFoundError"
                    ELSE "TokenInvalidAccountOwnerError")
            /\ UNCHANGED tx
    /\ UNCHANGED <<signedTransaction, signCalls>>
    /\ UNCHANGED BuildFrame

\* lines 583-592: both token accounts are derived, the source one is read
BuildSourceAta ==
    /\ pc = "BUILDING" /\ tx.step = "sourceAta"
    /\ ledgerReads' = Append(ledgerReads, "getAccountInfo(sourceAta)")
    /\ \E sourceAtaInfo \in AccountInfos :
         IF sourceAtaInfo # "null"
         THEN /\ tx' = [tx EXCEPT
                          !.step = "destinationAta",
                          !.sourceAtaInfo = sourceAtaInfo,
                          !.sourceAta = getAssociatedTokenAddress(
                              selectedRequirements.asset, tx.walletAddress,
                              tx.programId),
                          !.destinationAta = getAssociatedTokenAddress(
                              selectedRequirements.asset,
                              selectedRequirements.payTo, tx.programId)]
              /\ UNCHANGED <<pc, result>>
         ELSE /\ Fail("User does not have an Associated Token Account")
              /\ tx' = [tx EXCEPT
                          !.sourceAtaInfo = sourceAtaInfo,
                          !.sourceAta = getAssociatedTokenAddress(
                              selectedRequirements.asset, tx.walletAddress,
                              tx.programId),
                          !.destinationAta = getAssociatedTokenAddress(
                              selectedRequirements.asset,
                              selectedRequirements.payTo, tx.programId)]
    /\ UNCHANGED <<signedTransaction, signCalls>>
    /\ UNCHANGED BuildFrame

\* a variant that goes on to the transfer whatever the ledger holds
BuildDestinationAtaUnchecked ==
    /\ pc = "BUILDING" /\ tx.step = "destinationAta"
    /\ ledgerReads' = Append(ledgerReads, "getAccountInfo(destinationAta)")
    /\ \E destAtaInfo \in AccountInfos :
         tx' = [tx EXCEPT !.step = "transfer", !.destAtaInfo = destAtaInfo]
    /\ UNCHANGED <<pc, result, signedTransaction, signCalls>>
    /\ UNCHANGED BuildFrame

\* lines 594-600: the destination token account is read
BuildDestinationAta ==
    /\ pc = "BUILDING" /\ tx.step = "destinationAta"
    /\ ledgerReads' = Append(ledgerReads, "getAccountInfo(destinationAta)")
    /\ \E destAtaInfo \in AccountInfos :
         IF destAtaInfo # "null"
         THEN /\ tx' = [tx EXCEPT !.step = "transfer", !.destAtaInfo = destAtaInfo]
              /\ UNCHANGED <<pc, result>>
         ELSE /\ Fail("Destination does not have an Associated Token Account")
              /\ tx' = [tx EXCEPT !.destAtaInfo = destAtaInfo]
    /\ UNCHANGED <<signedTransaction, signCalls>>
    /\ UNCHANGED BuildFrame

\* a variant that reads the current field name only
AmountFieldOnly(req) == req.amount

\* amount || maxAmountRequired
AmountString(req) ==
    IF req.amount # "" THEN req.amount ELSE req.maxAmountRequired

\* lines 602-627: the transfer instruction is pushed, the blockhash read
BuildTransfer ==
    /\ pc = "BUILDING" /\ tx.step = "transfer"
    /\ LET amountStr == AmountString(selectedRequirements)
       IN IF amountStr = ""
          THEN /\ Fail("Missing amount in payment requirements")
               /\ UNCHANGED <<tx, ledgerReads>>
          ELSE IF ~IsIntegerString(amountStr)
          THEN /\ Fail("Cannot convert to a BigInt")
               /\ UNCHANGED <<tx, ledgerReads>>
          ELSE /\ ledgerReads' = Append(ledgerReads, "getLatestBlockhash")
               /\ tx' = [tx EXCEPT
                           !.step = "sign",
                           !.instructions = Append(tx.instructions,
                               createTransferCheckedInstruction(
                                   tx.sourceAta, selectedRequirements.asset,
                                   tx.destinationAta, tx.walletAddress,
                                   BigInt(amountStr), tx.decimals, tx.programId)),
                           !.transaction = Transaction(tx.feePayer, "blockhash",
                               Append(tx.instructions,
                                   createTransferCheckedInstruction(
                                       tx.sourceAta, selectedRequirements.asset,
                                       tx.destinationAta, tx.walletAddress,
                                       BigInt(amountStr), tx.decimals,
                                       tx.programId)),
                               {})]
               /\ UNCHANGED <<pc, result>>
    /\ UNCHANGED <<signedTransaction, signCalls>>
    /\ UNCHANGED BuildFrame

\* a variant that hands the transaction over without looking for signTransaction
BuildSignUnchecked ==
    /\ pc = "BUILDING" /\ tx.step = "sign"
    /\ signCalls' = Append(signCalls, tx.transaction)
    /\ tx' = [tx EXCEPT !.step = "signing"]
    /\ UNCHANGED <<pc, result>>
    /\ UNCHANGED <<signedTransaction, ledgerReads>>
    /\ UNCHANGED BuildFrame

\* lines 629-643: the message is compiled and handed to the wallet
BuildSign ==
    /\ pc = "BUILDING" /\ tx.step = "sign"
    /\ IF ~wallet.canSign
       THEN /\ Fail("Connected wallet does not support signTransaction")
            /\ UNCHANGED <<tx, signCalls>>
       ELSE /\ signCalls' = Append(signCalls, tx.transaction)
            /\ tx' = [tx EXCEPT !.step = "signing"]
            /\ UNCHANGED <<pc, result>>
    /\ UNCHANGED <<signedTransaction, ledgerReads>>
    /\ UNCHANGED BuildFrame

\* lines 643-645, 281-286: the wallet answers; its transaction is returned as is
WalletSigns ==
    /\ pc = "BUILDING" /\ tx.step = "signing"
    /\ \E signatures \in {{}, {tx.walletAddress}} :
         signedTransaction' = [tx.transaction EXCEPT !.signatures = signatures]
    /\ pc' = "ENCODING"
    /\ tx' = [tx EXCEPT !.step = "returned"]
    /\ UNCHANGED <<ledgerReads, signCalls, result>>
    /\ UNCHANGED BuildFrame

\* a variant that hands the transaction to the wallet again after a rejection
WalletRejectsAndIsAskedAgain ==
    /\ pc = "BUILDING" /\ tx.step = "signing"
    /\ tx' = [tx EXCEPT !.step = "sign"]
    /\ signCalls' = <<>>
    /\ UNCHANGED <<pc, result, signedTransaction, ledgerReads>>
    /\ UNCHANGED BuildFrame

\* line 643: the wallet rejects (the user declines)
WalletRejects ==
    /\ pc = "BUILDING" /\ tx.step = "signing"
    /\ Fail("User rejected the request")
    /\ UNCHANGED <<tx, signedTransaction, ledgerReads, signCalls>>
    /\ UNCHANGED BuildFrame

\* the ledger read each step of the builder awaits
ReadOfStep(step) ==
    CASE step = "start" -> "getAccountInfo(mint)"
      [] step = "getMint" -> "getMint(mint)"
      [] step = "sourceAta" -> "getAccountInfo(sourceAta)"
      [] step = "destinationAta" -> "getAccountInfo(destinationAta)"
      [] OTHER -> "getLatestBlockhash"

\* lines 573, 580, 587, 595, 627: a ledger read fails (RPC error) and the
\* error propagates out of the negotiated fetch
LedgerReadFails ==
    /\ pc = "BUILDING"
    /\ tx.step \in {"start", "getMint", "sourceAta", "destinationAta", "transfer"}
    /\ tx.step = "start" => ValidationError(wallet, selectedRequirements) = ""
    /\ tx.step = "transfer" => IsIntegerString(AmountString(selectedRequirements))
    /\ ledgerReads' = Append(ledgerReads, ReadOfStep(tx.step))
    /\ Fail("failed to get info from the RPC endpoint")
    /\ UNCHANGED <<tx, signedTransaction, signCalls>>
    /\ UNCHANGED BuildFrame

----------------------------------------------------------------------------
\* createPaymentFetch, continued: the retry

\* lines 276, 288-322: the payload is encoded and the request retried with it
EncodeAndRetry ==
    /\ pc = "ENCODING"
    /\ LET resourceUrl == UrlOf(input)
           headerName == HeaderNameFor(protocolVersion)
           header == PaymentHeaderFor(protocolVersion, signedTransaction,
                                             selectedRequirements, resourceUrl)
       IN calls' = Append(calls, [input |-> input,
                                  init |-> NewInit(init, headerName, header)])
    /\ inFlight' = inFlight + 1
    /\ pc' = "RETRYING"
    /\ UNCHANGED <<config, input, init, response, paymentRequired, protocolVersion,
                   selectedRequirements, tx, signedTransaction, ledgerReads,
                   signCalls, consoleErrors, result>>
    /\ UNCHANGED notClient

\* a variant that inspects the retry's response and negotiates again on a 402
RetryResponseRenegotiates ==
    /\ pc = "RETRYING"
    /\ \E r \in RetryResponses :
         IF Is402(r.status)
         THEN response' = r /\ pc' = "CHALLENGED" /\ UNCHANGED result
         ELSE result' = Returned(r) /\ pc' = "DONE" /\ UNCHANGED response
    /\ inFlight' = inFlight - 1
    /\ UNCHANGED <<config, input, init, calls, paymentRequired,
                   protocolVersion, selectedRequirements, tx, signedTransaction,
                   ledgerReads, signCalls, consoleErrors>>
    /\ UNCHANGED notClient

\* lines 322-325: the retry's response is returned, whatever it is
RetryResponse ==
    /\ pc = "RETRYING"
    /\ \E r \in RetryResponses : result' = Returned(r)
    /\ inFlight' = inFlight - 1
    /\ pc' = "DONE"
    /\ UNCHANGED <<config, input, init, calls, response, paymentRequired,
                   protocolVersion, selectedRequirements, tx, signedTransaction,
                   ledgerReads, signCalls, consoleErrors>>
    /\ UNCHANGED notClient

\* line 322: the retry's fetchFn rejects
RetryFails ==
    /\ pc = "RETRYING"
    /\ inFlight' = inFlight - 1
    /\ Fail("fetch failed")
    /\ UNCHANGED <<config, input, init, calls, response, paymentRequired,
                   protocolVersion, selectedRequirements, tx, signedTransaction,
                   ledgerReads, signCalls, consoleErrors>>
    /\ UNCHANGED notClient

----------------------------------------------------------------------------
\* FacilitatorClient (src/server/facilitator-client.ts)

\* what `new FacilitatorClient(x)` is given: a config object, or a string
ObjectArgument(url, apiKeyId, apiKeySecret) ==
    [isObject |-> TRUE, url |-> url, apiKeyId |-> apiKeyId,
     apiKeySecret |-> apiKeySecret]
StringArgument(s) ==
    [isObject |-> FALSE, url |-> s, apiKeyId |-> "", apiKeySecret |-> ""]

\* FacilitatorClient.constructor: config.url, config.apiKeyId and
\* config.apiKeySecret are read; on a string each of them is undefined
FacilitatorClientOf(arg) ==
    [facilitatorUrl |-> IF arg.isObject THEN arg.url ELSE "undefined",
     apiKeyId |-> IF arg.isObject THEN arg.apiKeyId ELSE "",
     apiKeySecret |-> IF arg.isObject THEN arg.apiKeySecret ELSE ""]

\* a variant that asks for a token when either credential is configured
NeedsTokenForEither(client) == client.apiKeyId # "" \/ client.apiKeySecret # ""

\* getAuthHeaders asks for a token only when both credentials are configured
NeedsToken(client) == client.apiKeyId # "" /\ client.apiKeySecret # ""

Authorization(client) == IF NeedsToken(client) THEN "Bearer jwt" ELSE ""

\* an HTTP request sent to the facilitator
FacilitatorCall(client, method, path, body) ==
    [method |-> method, url |-> <<client.facilitatorUrl, path>>,
     authorization |-> Authorization(client), body |-> body]

\* an answer of the facilitator: a network error, or a status and a body.
\* The transport (the global fetch) belongs to the environment: whatever url
\* the client holds, a request may be rejected (as Node's fetch does with a
\* url it cannot parse) or answered
Answer(networkError, status, body) ==
    [networkError |-> networkError, status |-> status, body |-> body]

\* a variant that takes every status below 500 for a success
ResponseBelow500(answer) == answer.status < 500

ResponseOk(answer) == answer.status >= 200 /\ answer.status <= 299

\* VerifyResponse; `json` tells a JSON object from JSON null
VerifyResponseOf(json, isValid, invalidReason, payer) ==
    [json |-> json, isValid |-> isValid, invalidReason |-> invalidReason,
     payer |-> payer]

UnsetVerifyResponse == VerifyResponseOf("", FALSE, "", "")

VerifyBodies ==
    { VerifyResponseOf("object", TRUE, "", "Payer"),
      VerifyResponseOf("object", FALSE, "insufficient_funds", "Payer"),
      VerifyResponseOf("object", FALSE, "unexpected_verify_error", ""),
      VerifyResponseOf("object", FALSE, "", ""),
      VerifyResponseOf("null", FALSE, "", "") }

VerifyAnswers ==
    { Answer(TRUE, 0, Null),
      Answer(FALSE, 500, Str("Internal Server Error")),
      Answer(FALSE, 401, JSONstringify(VerifyResponseOf("object", TRUE, "", "Payer"))),
      Answer(FALSE, 200, Str("OK")) }
    \cup { Answer(FALSE, 200, JSONstringify(v)) : v \in VerifyBodies }

\* SettleResponse
SettleResponseOf(json, success, errorReason, transaction, network) ==
    [json |-> json, success |-> success, errorReason |-> errorReason,
     transaction |-> transaction, network |-> network]

UnsetSettleResponse == SettleResponseOf("", FALSE, "", "", <<>>)

SettleBodies ==
    { SettleResponseOf("object", TRUE, "", "5h3k...signature", SOLANA_DEVNET_CAIP2),
      SettleResponseOf("object", FALSE, "insufficient_funds", "", SOLANA_DEVNET_CAIP2),
      SettleResponseOf("object", FALSE, "unexpected_settle_error", "", SOLANA_DEVNET_CAIP2),
      SettleResponseOf("null", FALSE, "", "", <<>>) }

SettleAnswers ==
    { Answer(TRUE, 0, Null),
      Answer(FALSE, 500, Str("Internal Server Error")),
      Answer(FALSE, 200, Str("OK")) }
    \cup { Answer(FALSE, 200, JSONstringify(v)) : v \in SettleBodies }

\* what a gateway operation did: whether it threw, the value it returned, the
\* requests it sent, the tokens it asked for, what it wrote to console.error
Outcome(threw, value, sent, tokens, errors) ==
    [threw |-> threw, value |-> value, sent |-> sent, tokens |-> tokens,
     errors |-> errors]

\* JSON.parse(Buffer.from(paymentHeader, 'base64').toString('utf8')) succeeds
Decodable(header) == IsBase64(header) /\ IsJSON(safeBase64Decode(header))

LocalVerifyError == VerifyResponseOf("object", FALSE, "unexpected_verify_error", "")

\* FacilitatorClient.verifyPayment, given whether the token can be obtained
\* and what the facilitator answers
verifyPayment(client, header, requirements, tokenOk, answer) ==
    LET tokens == IF NeedsToken(client) THEN 1 ELSE 0
        call == FacilitatorCall(client, "POST", "/verify",
                    JSONstringify([paymentPayload |-> JSONparse(safeBase64Decode(header)),
                                   paymentRequirements |-> requirements]))
    IN IF ~Decodable(header)
       THEN Outcome(FALSE, LocalVerifyError, <<>>, 0,
                    <<"Payment verification failed:">>)
       ELSE IF NeedsToken(client) /\ ~tokenOk
       THEN Outcome(FALSE, LocalVerifyError, <<>>, tokens,
                    <<"Payment verification failed:">>)
       ELSE IF answer.networkError
       THEN Outcome(FALSE, LocalVerifyError, <<call>>, tokens,
                    <<"Payment verification failed:">>)
       ELSE IF ~ResponseOk(answer)
       THEN Outcome(FALSE, LocalVerifyError, <<call>>, tokens,
                    <<"Facilitator /verify returned">>)
       ELSE IF ~IsJSON(answer.body)
       THEN Outcome(FALSE, LocalVerifyError, <<call>>, tokens,
                    <<"Payment verification failed:">>)
       ELSE Outcome(FALSE, JSONparse(answer.body), <<call>>, tokens, <<>>)

\* a variant whose local failure result does not carry the requirement's network
LocalSettleErrorWithoutNetwork(requirements) ==
    SettleResponseOf("object", FALSE, "unexpected_settle_error", "", <<>>)

LocalSettleError(requirements) ==
    SettleResponseOf("object", FALSE, "unexpected_settle_error", "",
                     requirements.network)

\* FacilitatorClient.settlePayment
settlePayment(client, header, requirements, tokenOk, answer) ==
    LET tokens == IF NeedsToken(client) THEN 1 ELSE 0
        call == FacilitatorCall(client, "POST", "/settle",
                    JSONstringify([paymentPayload |-> JSONparse(safeBase64Decode(header)),
                                   paymentRequirements |-> requirements]))
    IN IF ~Decodable(header)
       THEN Outcome(FALSE, LocalSettleError(requirements), <<>>, 0,
                    <<"Payment settlement failed:">>)
       ELSE IF NeedsToken(client) /\ ~tokenOk
       THEN Outcome(FALSE, LocalSettleError(requirements), <<>>, tokens,
                    <<"Payment settlement failed:">>)
       ELSE IF answer.networkError
       THEN Outcome(FALSE, LocalSettleError(requirements), <<call>>, tokens,
                    <<"Payment settlement failed:">>)
       ELSE IF ~ResponseOk(answer)
       THEN Outcome(FALSE, LocalSettleError(requirements), <<call>>, tokens,
                    <<"Facilitator /settle returned">>)
       ELSE IF ~IsJSON(answer.body)
       THEN Outcome(FALSE, LocalSettleError(requirements), <<call>>, tokens,
                    <<"Payment settlement failed:">>)
       ELSE Outcome(FALSE, JSONparse(answer.body), <<call>>, tokens, <<>>)

\* SupportedKind, and the answers of GET /supported
SupportedKind(scheme, network, feePayer) ==
    [x402Version |-> 2, scheme |-> scheme, network |-> network,
     extra |-> [feePayer |-> feePayer]]

SupportedKinds ==
    { SupportedKind("exact", SOLANA_DEVNET_CAIP2, "FeePayerDevnet"),
      SupportedKind("exact", SOLANA_MAINNET_CAIP2, "FeePayerMainnet"),
      SupportedKind("exact", SolanaDevnet, "FeePayerDevnet"),
      SupportedKind("exact", Solana, "FeePayerMainnet"),
      SupportedKind("exact", SOLANA_DEVNET_CAIP2, ""),
      SupportedKind("upto", SOLANA_DEVNET_CAIP2, "FeePayerUpto"),
      SupportedKind("exact", Eip155Base, "") }

\* longest list of kinds the facilitator answers with
MaxKinds == 2

SupportedBody(hasKinds, kinds) == [hasKinds |-> hasKinds, kinds |-> kinds]

SupportedAnswers ==
    { Answer(TRUE, 0, Null),
      Answer(FALSE, 500, Str("Internal Server Error")),
      Answer(FALSE, 200, Str("OK")),
      Answer(FALSE, 200, JSONstringify(SupportedBody(FALSE, <<>>))) }
    \cup { Answer(FALSE, 200, JSONstringify(SupportedBody(TRUE, k))) :
             k \in UNION { [1..n -> SupportedKinds] : n \in 0..MaxKinds } }

\* String.prototype.includes('devnet') on a network identifier
IncludesDevnet(network) ==
    \E i \in 1..Len(network) : network[i] \in {"-devnet", "devnet"}

\* the predicate of getFeePayer's find
KindMatches(kind, network) ==
    /\ kind.scheme = "exact"
    /\ isSolanaNetwork(kind.network)
    /\ isSolanaNetwork(network)
    /\ (IncludesDevnet(kind.network) = IncludesDevnet(network)
        \/ kind.network = network)

FindKind(kinds, network) ==
    IF \E i \in 1..Len(kinds) : KindMatches(kinds[i], network)
    THEN CHOOSE i \in 1..Len(kinds) :
            /\ KindMatches(kinds[i], network)
            /\ \A j \in 1..(i - 1) : ~KindMatches(kinds[j], network)
    ELSE 0

\* a variant that only misses the kind, not the kind's fee payer
KindMissing(kinds, found) == found = 0

\* line 103: !networkSupport?.extra?.feePayer
FeePayerMissing(kinds, found) == found = 0 \/ kinds[found].extra.feePayer = ""

\* FacilitatorClient.getFeePayer (through getSupported); the value is the fee
\* payer, "" when it threw
getFeePayer(client, network, tokenOk, answer) ==
    LET tokens == IF NeedsToken(client) THEN 1 ELSE 0
        call == FacilitatorCall(client, "GET", "/supported", Null)
    IN IF NeedsToken(client) /\ ~tokenOk
       THEN Outcome(TRUE, "", <<>>, tokens, <<>>)
       ELSE IF answer.networkError \/ ~ResponseOk(answer) \/ ~IsJSON(answer.body)
       THEN Outcome(TRUE, "", <<call>>, tokens, <<>>)
       ELSE LET supportedData == JSONparse(answer.body)
                kinds == IF supportedData.hasKinds THEN supportedData.kinds ELSE <<>>
                found == FindKind(kinds, network)
            IN IF FeePayerMissing(kinds, found)
               THEN Outcome(TRUE, "", <<call>>, tokens, <<>>)
               ELSE Outcome(FALSE, kinds[found].extra.feePayer, <<call>>,
                            tokens, <<>>)

----------------------------------------------------------------------------
\* X402PaymentHandler (src/server/payment-handler.ts, lines 30-161)

toCAIP2Network(network) ==
    CASE network = Solana -> SOLANA_MAINNET_CAIP2
      [] network = SolanaDevnet -> SOLANA_DEVNET_CAIP2
      [] OTHER -> <<>>

\* X402ServerConfig; "" and 0 stand for an option that is not given
ServerConfigOf(network, apiKeyId, apiKeySecret, defaultTimeoutSeconds) ==
    [network |-> network, treasuryAddress |-> "Treasury",
     facilitatorUrl |-> "https://facilitator.payai.network",
     apiKeyId |-> apiKeyId, apiKeySecret |-> apiKeySecret,
     defaultDescription |-> "", defaultTimeoutSeconds |-> defaultTimeoutSeconds]

ServerConfigs ==
    { ServerConfigOf(n, "", "", 0) : n \in {Solana, SolanaDevnet} }
    \cup { ServerConfigOf(SolanaDevnet, "key-id", "key-secret", 0),
           ServerConfigOf(SolanaDevnet, "", "", 120) }

\* the configuration as given, its defaults left out
ConfigAsGiven(c) ==
    [network |-> toCAIP2Network(c.network),
     treasuryAddress |-> c.treasuryAddress,
     facilitatorUrl |-> c.facilitatorUrl,
     defaultDescription |-> c.defaultDescription,
     defaultTimeoutSeconds |-> c.defaultTimeoutSeconds]

\* X402PaymentHandler.constructor, lines 37-45: the internal configuration
HandlerConfig(c) ==
    [network |-> toCAIP2Network(c.network),
     treasuryAddress |-> c.treasuryAddress,
     facilitatorUrl |-> c.facilitatorUrl,
     defaultDescription |-> IF c.defaultDescription # "" THEN c.defaultDescription
                            ELSE "Payment required",
     defaultTimeoutSeconds |-> IF c.defaultTimeoutSeconds # 0
                               THEN c.defaultTimeoutSeconds ELSE 300]

\* X402PaymentHandler.constructor, line 47: new FacilitatorClient(config.facilitatorUrl)
HandlerFacilitatorClient(c) == FacilitatorClientOf(StringArgument(c.facilitatorUrl))

\* RouteConfig; "" stands for a text that is not given, and the timeout is
\* <<>> when it is not given and <<n>> when it is n
RouteConfigOf(amount, asset, description, mimeType, maxTimeoutSeconds) ==
    [amount |-> amount, asset |-> [address |-> asset, decimals |-> 6],
     description |-> description, mimeType |-> mimeType,
     maxTimeoutSeconds |-> maxTimeoutSeconds]

ChatRoute == RouteConfigOf("2500000", "4zMMC9srt5Ri5X14GAgXhaHii3GnPAEERYPJgZJDncDU",
                           "AI Chat Request", "", <<>>)
ChatUrl == "https://example.com/api/chat"

\* createPaymentRequirements, lines 79-94, given the fee payer of line 77
createPaymentRequirements(hc, routeConfig, resourceUrl, feePayer) ==
    [scheme |-> "exact", network |-> hc.network, amount |-> routeConfig.amount,
     maxAmountRequired |-> "", payTo |-> hc.treasuryAddress,
     asset |-> routeConfig.asset.address,
     maxTimeoutSeconds |-> IF /\ routeConfig.maxTimeoutSeconds # <<>>
                              /\ routeConfig.maxTimeoutSeconds[1] # 0
                           THEN routeConfig.maxTimeoutSeconds[1]
                           ELSE hc.defaultTimeoutSeconds,
     extra |-> [feePayer |-> feePayer,
                description |-> IF routeConfig.description # ""
                                THEN routeConfig.description
                                ELSE hc.defaultDescription,
                mimeType |-> IF routeConfig.mimeType # "" THEN routeConfig.mimeType
                             ELSE "application/json",
                resource |-> resourceUrl]]

\* the challenge body with the requirement's texts as they are
create402ResponseWithoutDefaults(requirements, resourceUrl) ==
    [status |-> 402,
     body |-> [x402Version |-> 2,
               resource |-> Resource(resourceUrl, requirements.extra.description,
                                     requirements.extra.mimeType),
               accepts |-> <<requirements>>,
               error |-> "Payment required"]]

\* create402Response: the challenge body
create402Response(requirements, resourceUrl) ==
    [status |-> 402,
     body |-> [x402Version |-> 2,
               resource |-> Resource(resourceUrl, requirements.extra.description,
                                     IF requirements.extra.mimeType # ""
                                     THEN requirements.extra.mimeType
                                     ELSE "application/json"),
               accepts |-> <<requirements>>,
               error |-> "Payment required"]]

\* Inbound request headers: a Headers object (names stored in lower case) or
\* a plain object (names as given; a value may be an array of strings)
Array(values) == <<"array", values>>
IsArray(v) == v[1] = "array"

SignedSample ==
    Transaction("FeePayer", "blockhash", ComputeBudgetInstructions, {"Payer"})
SampleV2 == createPaymentPayload(SignedSample, BaseRequirement(SOLANA_DEVNET_CAIP2, "1"),
                                 ChatUrl)
SampleV1 == createPaymentPayloadV1(SignedSample, BaseRequirement(SolanaDevnet, "1"))

PaymentHeaderNames ==
    {"X-PAYMENT", "x-payment", "X-Payment", "PAYMENT-SIGNATURE", "payment-signature"}

RequestHeaders ==
    { [kind |-> k, entries |-> {}] : k \in {"Headers", "object"} }
    \cup { [kind |-> "Headers", entries |-> {<<LowerCase(n), v>>}] :
             n \in PaymentHeaderNames,
             v \in {SampleV2, SampleV1, Str("garbage"), EmptyString} }
    \cup { [kind |-> "object", entries |-> {<<n, v>>}] :
             n \in PaymentHeaderNames,
             v \in {SampleV2, SampleV1, Str("garbage"), EmptyString,
                    Array(<<>>), Array(<<SampleV2>>)} }

\* headers[key] on a plain object
ObjectGet(entries, key) ==
    IF \E e \in entries : e[1] = key
    THEN (CHOOSE e \in entries : e[1] = key)[2]
    ELSE Null

\* a || b
Or(a, b) == IF Truthy(a) THEN a ELSE b

\* extractPayment, lines 54-63
extractPayment(headers) ==
    IF headers.kind = "Headers"
    THEN Or(HeadersGet(headers.entries, "X-PAYMENT"),
            HeadersGet(headers.entries, "x-payment"))
    ELSE LET xPayment == Or(ObjectGet(headers.entries, "X-PAYMENT"),
                            ObjectGet(headers.entries, "x-payment"))
         IN IF IsArray(xPayment)
            THEN IF Len(xPayment[2]) > 0 THEN Or(xPayment[2][1], Null) ELSE Null
            ELSE Or(xPayment, Null)

\* the handler's answer to the request
HttpResponse(status, kind, reason, accepts) ==
    [status |-> status, kind |-> kind, reason |-> reason, accepts |-> accepts]
NoHttpResponse == HttpResponse(0, "none", "", <<>>)

\* a variant that takes every verification result for valid
NeverRejected(v) == FALSE

\* line 475: if (!verified.isValid)
PaymentRejected(v) == ~v.isValid

\* a variant that answers with an error when the settlement failed
ResponseIfSettled(s) ==
    IF s.success THEN HttpResponse(200, "result", "", <<>>)
    ELSE HttpResponse(500, "error", s.errorReason, <<>>)

\* line 495: NextResponse.json(result), whatever the settlement was
ResponseAfterSettlement(s) == HttpResponse(200, "result", "", <<>>)

\* a call of a function of the library: its name, its arguments, whether it
\* threw, and the value it returned
Call(op, args, threw, value) == [op |-> op, args |-> args, threw |-> threw, value |-> value]
NoCall == Call("", <<>>, FALSE, <<>>)

\* a call of a gateway operation: its arguments, the facilitator's answer, and
\* how it ended
GatewayCall(op, header, requirements, network, answer, tokenOk, threw, feePayer) ==
    [op |-> op, header |-> header, requirements |-> requirements,
     network |-> network, answer |-> answer, tokenOk |-> tokenOk,
     threw |-> threw, feePayer |-> feePayer]

NoGatewayCall ==
    GatewayCall("", Null, UnsetRequirement, <<>>, Answer(FALSE, 0, Null), FALSE,
                FALSE, "")

----------------------------------------------------------------------------
\* The handler sequence of the README (Server Side, Next.js API Route):
\* extract, build the requirement, verify, run the logic, settle, respond

HandlerThrows ==
    /\ spc' = "error"
    /\ httpResponse' = HttpResponse(500, "error", "", <<>>)

\* line 452: extractPayment(req.headers)
HandlerExtract ==
    /\ spc = "extract"
    /\ paymentHeader' = extractPayment(reqHeaders)
    /\ spc' = "requirements"
    /\ handlerCalls' = Append(handlerCalls, "extractPayment")
    /\ UNCHANGED <<serverConfig, facilitatorClient, reqHeaders, paymentRequirements,
                   verified, settlement, logicRuns, facilitatorCalls,
                   tokenRequests, serverErrors, gateway, httpResponse>>
    /\ UNCHANGED notServer

\* how often the route called a method of the handler in this request
CallsOf(method) ==
    Cardinality({ i \in 1..Len(handlerCalls) : handlerCalls[i] = method })

\* how many requests for a path the gateway sent in this request
RequestsTo(path) ==
    Cardinality({ i \in 1..Len(facilitatorCalls) : facilitatorCalls[i].url[2] = path })

\* an answered request: whether it carried a payment, the requirement built
\* for it, the answer, and the calls made on its behalf
Served ==
    [paid |-> Truthy(paymentHeader),
     paymentRequirements |-> paymentRequirements,
     httpResponse |-> httpResponse,
     builds |-> CallsOf("createPaymentRequirements"),
     discoveries |-> RequestsTo("/supported"),
     verifications |-> RequestsTo("/verify")]

\* a variant that keeps the requirement built for the request before
HandlerCreateRequirementsCached ==
    /\ spc = "requirements"
    /\ IF served # <<>> /\ served[Len(served)].paymentRequirements # UnsetRequirement
       THEN /\ paymentRequirements' = served[Len(served)].paymentRequirements
            /\ spc' = "built"
            /\ UNCHANGED <<gateway, facilitatorCalls, tokenRequests, httpResponse>>
       ELSE \E tokenOk \in BOOLEAN, answer \in SupportedAnswers :
              LET hc == HandlerConfig(serverConfig)
                  o == getFeePayer(facilitatorClient, hc.network, tokenOk, answer)
              IN /\ gateway' = GatewayCall("getFeePayer", Null, UnsetRequirement,
                                           hc.network, answer, tokenOk, o.threw, o.value)
                 /\ facilitatorCalls' = facilitatorCalls \o o.sent
                 /\ tokenRequests' = tokenRequests + o.tokens
                 /\ IF o.threw
                    THEN HandlerThrows /\ UNCHANGED paymentRequirements
                    ELSE /\ paymentRequirements' =
                              createPaymentRequirements(hc, ChatRoute, ChatUrl, o.value)
                         /\ spc' = "built"
                         /\ UNCHANGED httpResponse
    /\ handlerCalls' = Append(handlerCalls, "createPaymentRequirements")
    /\ UNCHANGED <<serverConfig, facilitatorClient, reqHeaders, paymentHeader,
                   verified, settlement, logicRuns, serverErrors>>
    /\ UNCHANGED notServer

\* lines 455-465: createPaymentRequirements, which asks the gateway for the
\* fee payer; an error of the gateway is the handler's
HandlerCreateRequirements ==
    /\ spc = "requirements"
    /\ \E tokenOk \in BOOLEAN, answer \in SupportedAnswers :
         LET hc == HandlerConfig(serverConfig)
             o == getFeePayer(facilitatorClient, hc.network, tokenOk, answer)
         IN /\ gateway' = GatewayCall("getFeePayer", Null, UnsetRequirement,
                                      hc.network, answer, tokenOk, o.threw, o.value)
            /\ facilitatorCalls' = facilitatorCalls \o o.sent
            /\ tokenRequests' = tokenRequests + o.tokens
            /\ IF o.threw
               THEN HandlerThrows /\ UNCHANGED paymentRequirements
               ELSE /\ paymentRequirements' =
                         createPaymentRequirements(hc, ChatRoute, ChatUrl, o.value)
                    /\ spc' = "built"
                    /\ UNCHANGED httpResponse
    /\ handlerCalls' = Append(handlerCalls, "createPaymentRequirements")
    /\ UNCHANGED <<serverConfig, facilitatorClient, reqHeaders, paymentHeader,
                   verified, settlement, logicRuns, serverErrors>>
    /\ UNCHANGED notServer

\* lines 467-471: without a payment header the challenge is the answer
HandlerChallenge ==
    /\ spc = "built"
    /\ ~Truthy(paymentHeader)
    /\ httpResponse' = HttpResponse(402, "challenge", "",
                          create402Response(paymentRequirements, ChatUrl).body.accepts)
    /\ spc' = "done"
    /\ handlerCalls' = Append(handlerCalls, "create402Response")
    /\ UNCHANGED <<serverConfig, facilitatorClient, reqHeaders, paymentHeader,
                   paymentRequirements, verified, settlement, logicRuns,
                   facilitatorCalls, tokenRequests, serverErrors, gateway>>
    /\ UNCHANGED notServer

\* line 474: verifyPayment(paymentHeader, paymentRequirements)
HandlerVerify ==
    /\ spc = "built"
    /\ Truthy(paymentHeader)
    /\ \E tokenOk \in BOOLEAN, answer \in VerifyAnswers :
         LET o == verifyPayment(facilitatorClient, paymentHeader,
                                paymentRequirements, tokenOk, answer)
         IN /\ verified' = o.value
            /\ facilitatorCalls' = facilitatorCalls \o o.sent
            /\ tokenRequests' = tokenRequests + o.tokens
            /\ serverErrors' = serverErrors \o o.errors
    /\ spc' = "verified"
    /\ handlerCalls' = Append(handlerCalls, "verifyPayment")
    /\ UNCHANGED <<serverConfig, facilitatorClient, reqHeaders, paymentHeader,
                   paymentRequirements, settlement, logicRuns, gateway,
                   httpResponse>>
    /\ UNCHANGED notServer

\* lines 475-483: an invalid payment is answered with 402 and the reason;
\* reading isValid of a null result is a TypeError
HandlerInvalid ==
    /\ spc = "verified"
    /\ verified.json = "null" \/ PaymentRejected(verified)
    /\ IF verified.json = "null"
       THEN HandlerThrows
       ELSE /\ httpResponse' = HttpResponse(402, "invalid", verified.invalidReason,
                                         <<>>)
            /\ spc' = "done"
    /\ UNCHANGED handlerCalls
    /\ UNCHANGED <<serverConfig, facilitatorClient, reqHeaders, paymentHeader,
                   paymentRequirements, verified, settlement, logicRuns,
                   facilitatorCalls, tokenRequests, serverErrors, gateway>>
    /\ UNCHANGED notServer

\* line 486: the protected logic runs, and produces its result or throws
HandlerBusinessLogic ==
    /\ spc = "verified"
    /\ verified.json # "null" /\ ~PaymentRejected(verified)
    /\ \/ /\ logicRuns' = Append(logicRuns, "result")
          /\ spc' = "settle"
          /\ UNCHANGED httpResponse
       \/ /\ logicRuns' = Append(logicRuns, "threw")
          /\ HandlerThrows
    /\ UNCHANGED handlerCalls
    /\ UNCHANGED <<serverConfig, facilitatorClient, reqHeaders, paymentHeader,
                   paymentRequirements, verified, settlement, facilitatorCalls,
                   tokenRequests, serverErrors, gateway>>
    /\ UNCHANGED notServer

\* line 489: settlePayment(paymentHeader, paymentRequirements)
HandlerSettle ==
    /\ spc = "settle"
    /\ \E tokenOk \in BOOLEAN, answer \in SettleAnswers :
         LET o == settlePayment(facilitatorClient, paymentHeader,
                                paymentRequirements, tokenOk, answer)
         IN /\ settlement' = o.value
            /\ facilitatorCalls' = facilitatorCalls \o o.sent
            /\ tokenRequests' = tokenRequests + o.tokens
            /\ serverErrors' = serverErrors \o o.errors
    /\ spc' = "settled"
    /\ handlerCalls' = Append(handlerCalls, "settlePayment")
    /\ UNCHANGED <<serverConfig, facilitatorClient, reqHeaders, paymentHeader,
                   paymentRequirements, verified, logicRuns, gateway, httpResponse>>
    /\ UNCHANGED notServer

\* lines 490-495: a failed settlement is logged, the result is returned;
\* reading success of a null result is a TypeError
HandlerRespond ==
    /\ spc = "settled"
    /\ IF settlement.json = "null"
       THEN HandlerThrows /\ UNCHANGED serverErrors
       ELSE /\ serverErrors' = IF settlement.success THEN serverErrors
                               ELSE Append(serverErrors, "Settlement failed:")
            /\ httpResponse' = ResponseAfterSettlement(settlement)
            /\ spc' = "done"
    /\ UNCHANGED handlerCalls
    /\ UNCHANGED <<serverConfig, facilitatorClient, reqHeaders, paymentHeader,
                   paymentRequirements, verified, settlement, logicRuns,
                   facilitatorCalls, tokenRequests, gateway>>
    /\ UNCHANGED notServer

----------------------------------------------------------------------------
\* Direct calls of the gateway's operations

FacilitatorClients ==
    { FacilitatorClientOf(ObjectArgument("https://facilitator.payai.network", k[1], k[2])) :
        k \in {<<"", "">>, <<"key-id", "key-secret">>, <<"key-id", "">>} }
    \cup { HandlerFacilitatorClient(c) : c \in ServerConfigs }

GatewayHeaders == {SampleV2, SampleV1, Str("garbage"), EmptyString}

GatewayRequirements ==
    { createPaymentRequirements(HandlerConfig(c), ChatRoute, ChatUrl, "FeePayerDevnet") :
        c \in ServerConfigs }
    \cup { BaseRequirement(SolanaDevnet, "1") }

GatewayNetworks ==
    { Solana, SolanaDevnet, SOLANA_MAINNET_CAIP2, SOLANA_DEVNET_CAIP2,
      <<"solana", ":", "unknown">>, Eip155Base }

GatewayFrame == <<handlerCalls, serverConfig, facilitatorClient, reqHeaders, paymentHeader,
                  paymentRequirements, logicRuns, httpResponse>>

GatewayVerifyPayment ==
    /\ spc = "gateway"
    /\ \E header \in GatewayHeaders, requirements \in GatewayRequirements,
          tokenOk \in BOOLEAN, answer \in VerifyAnswers :
         LET o == verifyPayment(facilitatorClient, header, requirements, tokenOk,
                                answer)
         IN /\ gateway' = GatewayCall("verifyPayment", header, requirements, <<>>,
                                      answer, tokenOk, o.threw, "")
            /\ verified' = o.value
            /\ facilitatorCalls' = facilitatorCalls \o o.sent
            /\ tokenRequests' = tokenRequests + o.tokens
            /\ serverErrors' = serverErrors \o o.errors
            /\ spc' = IF o.threw THEN "threw" ELSE "returned"
    /\ UNCHANGED settlement
    /\ UNCHANGED GatewayFrame
    /\ UNCHANGED notServer

GatewaySettlePayment ==
    /\ spc = "gateway"
    /\ \E header \in GatewayHeaders, requirements \in GatewayRequirements,
          tokenOk \in BOOLEAN, answer \in SettleAnswers :
         LET o == settlePayment(facilitatorClient, header, requirements, tokenOk,
                                answer)
         IN /\ gateway' = GatewayCall("settlePayment", header, requirements, <<>>,
                                      answer, tokenOk, o.threw, "")
            /\ settlement' = o.value
            /\ facilitatorCalls' = facilitatorCalls \o o.sent
            /\ tokenRequests' = tokenRequests + o.tokens
            /\ serverErrors' = serverErrors \o o.errors
            /\ spc' = IF o.threw THEN "threw" ELSE "returned"
    /\ UNCHANGED verified
    /\ UNCHANGED GatewayFrame
    /\ UNCHANGED notServer

GatewayGetFeePayer ==
    /\ spc = "gateway"
    /\ \E network \in GatewayNetworks, tokenOk \in BOOLEAN,
          answer \in SupportedAnswers :
         LET o == getFeePayer(facilitatorClient, network, tokenOk, answer)
         IN /\ gateway' = GatewayCall("getFeePayer", Null, UnsetRequirement,
                                      network, answer, tokenOk, o.threw, o.value)
            /\ facilitatorCalls' = facilitatorCalls \o o.sent
            /\ tokenRequests' = tokenRequests + o.tokens
            /\ spc' = IF o.threw THEN "threw" ELSE "returned"
    /\ UNCHANGED <<verified, settlement, serverErrors>>
    /\ UNCHANGED GatewayFrame
    /\ UNCHANGED notServer

----------------------------------------------------------------------------
\* The negotiation as a state machine

\* the client before fetch is called
\* the locals of one call of the negotiated fetch (lines 206-322); fetchFn,
\* wallet, rpcUrl and maxValue belong to the closure and are never assigned
Locals ==
    [input |-> input, init |-> init, pc |-> pc, calls |-> calls,
     inFlight |-> inFlight, response |-> response,
     paymentRequired |-> paymentRequired, protocolVersion |-> protocolVersion,
     selectedRequirements |-> selectedRequirements, tx |-> tx,
     signedTransaction |-> signedTransaction, ledgerReads |-> ledgerReads,
     signCalls |-> signCalls, consoleErrors |-> consoleErrors, result |-> result]

\* the locals of a call that has not made its first step
StartOf(in, i) ==
    [input |-> in, init |-> i, pc |-> "INIT", calls |-> <<>>, inFlight |-> 0,
     response |-> NoResponse, paymentRequired |-> UnsetPaymentRequired,
     protocolVersion |-> 0, selectedRequirements |-> UnsetRequirement,
     tx |-> UnsetTx, signedTransaction |-> UnsetTransaction, ledgerReads |-> <<>>,
     signCalls |-> <<>>, consoleErrors |-> <<>>, result |-> NoResult]

\* no second call
NoNegotiation == [StartOf([isString |-> TRUE, url |-> ""], NoInit) EXCEPT !.pc = ""]

ClientStarts ==
    /\ pc = "INIT"
    /\ calls = <<>>
    /\ inFlight = 0
    /\ response = NoResponse
    /\ paymentRequired = UnsetPaymentRequired
    /\ protocolVersion = 0
    /\ selectedRequirements = UnsetRequirement
    /\ tx = UnsetTx
    /\ signedTransaction = UnsetTransaction
    /\ ledgerReads = <<>>
    /\ signCalls = <<>>
    /\ consoleErrors = <<>>
    /\ result = NoResult

\* the server side at rest
ServerIdle ==
    /\ serverConfig = ServerConfigOf(SolanaDevnet, "", "", 0)
    /\ facilitatorClient = HandlerFacilitatorClient(serverConfig)
    /\ reqHeaders = [kind |-> "Headers", entries |-> {}]
    /\ spc = "idle"
    /\ paymentHeader = Null
    /\ paymentRequirements = UnsetRequirement
    /\ verified = UnsetVerifyResponse
    /\ settlement = UnsetSettleResponse
    /\ handlerCalls = <<>>
    /\ logicRuns = <<>>
    /\ facilitatorCalls = <<>>
    /\ tokenRequests = 0
    /\ serverErrors = <<>>
    /\ gateway = NoGatewayCall
    /\ httpResponse = NoHttpResponse
    /\ libraryCall = NoCall
    /\ served = <<>>

\* the client side at rest
ClientIdle ==
    /\ config = ClientConfig(DefaultWallet, SolanaDevnet, <<>>, <<>>)
    /\ input = [isString |-> TRUE, url |-> ChatUrl]
    /\ init = NoInit
    /\ ClientStarts
    /\ suspended = NoNegotiation

Init ==
    /\ config \in ClientConfigs
    /\ input \in Inputs
    /\ init \in Inits
    /\ ClientStarts
    /\ suspended = NoNegotiation
    /\ ServerIdle

Next ==
    \/ InitialRequest
    \/ InitialResponse
    \/ InitialRequestFails
    \/ DetectVersion
    \/ SelectRequirements
    \/ CheckMaxValue
    \/ BuildStart
    \/ BuildGetMint
    \/ BuildSourceAta
    \/ BuildDestinationAta
    \/ BuildTransfer
    \/ BuildSign
    \/ WalletSigns
    \/ WalletRejects
    \/ LedgerReadFails
    \/ EncodeAndRetry
    \/ RetryResponse
    \/ RetryFails

Spec == Init /\ [][Next]_vars

----------------------------------------------------------------------------
\* Two negotiations through one client: two calls of the negotiated fetch are
\* in progress, and at every await the event loop may resume either

\* the two requests
FirstInput == [isString |-> TRUE, url |-> "https://test-api.com/endpoint"]
SecondInput == [isString |-> TRUE, url |-> "https://test-api.com/other"]

\* what the two requests are answered with: no challenge, a v1 challenge for
\* one unit on the devnet, a v2 challenge for two units on the mainnet
ConcurrentResponses ==
    { ResponseOf(200, {}, JSONstringify(MessageOnly)),
      ResponseOf(402, {},
                 JSONstringify(PaymentRequiredOf(1, TRUE,
                     <<BaseRequirement(SolanaDevnet, "1")>>))),
      ResponseOf(402,
                 {<<"payment-required",
                    Base64Encode(JSONstringify(PaymentRequiredOf(2, TRUE,
                        <<BaseRequirement(SOLANA_MAINNET_CAIP2, "2")>>)))>>},
                 JSONstringify(MessageOnly)) }

\* lines 211-217, for the answers above
ConcurrentInitialResponse ==
    /\ pc = "REQUESTED"
    /\ \E r \in ConcurrentResponses :
         /\ response' = r
         /\ IF ~Is402(r.status)
            THEN pc' = "DONE" /\ result' = Returned(r)
            ELSE pc' = "CHALLENGED" /\ UNCHANGED result
    /\ inFlight' = inFlight - 1
    /\ UNCHANGED <<config, input, init, calls, paymentRequired, protocolVersion,
                   selectedRequirements, tx, signedTransaction, ledgerReads,
                   signCalls, consoleErrors>>
    /\ UNCHANGED notClient

\* a variant in which the selected requirement is kept outside the call
SwitchNegotiationSharingSelection ==
    /\ suspended' = Locals
    /\ input' = suspended.input
    /\ init' = suspended.init
    /\ pc' = suspended.pc
    /\ calls' = suspended.calls
    /\ inFlight' = suspended.inFlight
    /\ response' = suspended.response
    /\ paymentRequired' = suspended.paymentRequired
    /\ protocolVersion' = suspended.protocolVersion
    /\ selectedRequirements' = selectedRequirements
    /\ tx' = suspended.tx
    /\ signedTransaction' = suspended.signedTransaction
    /\ ledgerReads' = suspended.ledgerReads
    /\ signCalls' = suspended.signCalls
    /\ consoleErrors' = suspended.consoleErrors
    /\ result' = suspended.result
    /\ UNCHANGED <<config, serverVars, libraryCall, served>>

\* lines 206-322: the running call is at an await (or has ended) and the
\* event loop resumes the other call, whose locals are its own
SwitchNegotiation ==
    /\ suspended' = Locals
    /\ input' = suspended.input
    /\ init' = suspended.init
    /\ pc' = suspended.pc
    /\ calls' = suspended.calls
    /\ inFlight' = suspended.inFlight
    /\ response' = suspended.response
    /\ paymentRequired' = suspended.paymentRequired
    /\ protocolVersion' = suspended.protocolVersion
    /\ selectedRequirements' = suspended.selectedRequirements
    /\ tx' = suspended.tx
    /\ signedTransaction' = suspended.signedTransaction
    /\ ledgerReads' = suspended.ledgerReads
    /\ signCalls' = suspended.signCalls
    /\ consoleErrors' = suspended.consoleErrors
    /\ result' = suspended.result
    /\ UNCHANGED <<config, serverVars, libraryCall, served>>

InitConcurrent ==
    /\ config = ClientConfig(DefaultWallet, SolanaDevnet, <<>>, <<>>)
    /\ input = FirstInput
    /\ init = NoInit
    /\ ClientStarts
    /\ suspended = StartOf(SecondInput, NoInit)
    /\ ServerIdle

NextConcurrent ==
    \/ InitialRequest
    \/ ConcurrentInitialResponse
    \/ InitialRequestFails
    \/ DetectVersion
    \/ SelectRequirements
    \/ CheckMaxValue
    \/ BuildStart
    \/ BuildGetMint
    \/ BuildSourceAta
    \/ BuildDestinationAta
    \/ BuildTransfer
    \/ BuildSign
    \/ WalletSigns
    \/ WalletRejects
    \/ LedgerReadFails
    \/ EncodeAndRetry
    \/ RetryResponse
    \/ RetryFails
    \/ SwitchNegotiation

SpecConcurrent == InitConcurrent /\ [][NextConcurrent]_vars

----------------------------------------------------------------------------
\* Two clients that differ in their configured network only, each with one
\* negotiation for the same request

\* the other of the two networks a client is configured with
OtherNetwork(network) == IF network = Solana THEN SolanaDevnet ELSE Solana

\* lines 206-322, 459-473: the call of the other client is resumed; its
\* closure holds the same wallet and ceiling and the other network's endpoint
SwitchClient ==
    /\ config' = [config EXCEPT !.network = OtherNetwork(config.network)]
    /\ suspended' = Locals
    /\ input' = suspended.input
    /\ init' = suspended.init
    /\ pc' = suspended.pc
    /\ calls' = suspended.calls
    /\ inFlight' = suspended.inFlight
    /\ response' = suspended.response
    /\ paymentRequired' = suspended.paymentRequired
    /\ protocolVersion' = suspended.protocolVersion
    /\ selectedRequirements' = suspended.selectedRequirements
    /\ tx' = suspended.tx
    /\ signedTransaction' = suspended.signedTransaction
    /\ ledgerReads' = suspended.ledgerReads
    /\ signCalls' = suspended.signCalls
    /\ consoleErrors' = suspended.consoleErrors
    /\ result' = suspended.result
    /\ UNCHANGED <<serverVars, libraryCall, served>>

InitTwoClients ==
    /\ config \in { ClientConfig(DefaultWallet, n, m, <<>>) :
                       n \in {Solana, SolanaDevnet}, m \in {<<>>, <<Ceiling>>} }
    /\ input = FirstInput
    /\ init = NoInit
    /\ ClientStarts
    /\ suspended = StartOf(FirstInput, NoInit)
    /\ ServerIdle

NextTwoClients ==
    \/ InitialRequest
    \/ ConcurrentInitialResponse
    \/ InitialRequestFails
    \/ DetectVersion
    \/ SelectRequirements
    \/ CheckMaxValue
    \/ BuildStart
    \/ BuildGetMint
    \/ BuildSourceAta
    \/ BuildDestinationAta
    \/ BuildTransfer
    \/ BuildSign
    \/ WalletSigns
    \/ WalletRejects
    \/ LedgerReadFails
    \/ EncodeAndRetry
    \/ RetryResponse
    \/ RetryFails
    \/ SwitchClient

SpecTwoClients == InitTwoClients /\ [][NextTwoClients]_vars

----------------------------------------------------------------------------
\* One negotiation whose awaited calls all return or fail

\* a call of the negotiated fetch by each client, without init
InitLive ==
    /\ config \in ClientConfigs
    /\ input = FirstInput
    /\ init = NoInit
    /\ ClientStarts
    /\ suspended = NoNegotiation
    /\ ServerIdle

\* every await of lines 211, 236, 281, 322 and 573-643 is on a call that
\* returns or fails, and the event loop then runs the continuation: a step that
\* can be taken is taken
SpecLive == InitLive /\ [][Next]_vars /\ WF_vars(Next)

----------------------------------------------------------------------------
\* The handler as a state machine: one inbound request

InitServer ==
    /\ serverConfig \in ServerConfigs
    /\ facilitatorClient = HandlerFacilitatorClient(serverConfig)
    /\ reqHeaders \in RequestHeaders
    /\ spc = "extract"
    /\ paymentHeader = Null
    /\ paymentRequirements = UnsetRequirement
    /\ verified = UnsetVerifyResponse
    /\ settlement = UnsetSettleResponse
    /\ handlerCalls = <<>>
    /\ logicRuns = <<>>
    /\ facilitatorCalls = <<>>
    /\ tokenRequests = 0
    /\ serverErrors = <<>>
    /\ gateway = NoGatewayCall
    /\ httpResponse = NoHttpResponse
    /\ libraryCall = NoCall
    /\ served = <<>>
    /\ ClientIdle

NextServer ==
    \/ HandlerExtract
    \/ HandlerCreateRequirements
    \/ HandlerChallenge
    \/ HandlerVerify
    \/ HandlerInvalid
    \/ HandlerBusinessLogic
    \/ HandlerSettle
    \/ HandlerRespond

SpecServer == InitServer /\ [][NextServer]_vars

----------------------------------------------------------------------------
\* The route over several requests: the handler sequence runs once for each

\* the headers of a later request: without a payment, or the retry of a client
LaterRequestHeaders ==
    { [kind |-> "Headers", entries |-> {}],
      [kind |-> "Headers", entries |-> {<<"x-payment", SampleV1>>}] }

\* lines 448-452: the route is entered again for the next request; the
\* handler object and its FacilitatorClient are the same, the locals are new
HandlerNextRequest ==
    /\ spc \in {"done", "error"}
    /\ Len(served) < MaxRequests - 1
    /\ served' = Append(served, Served)
    /\ reqHeaders' \in LaterRequestHeaders
    /\ spc' = "extract"
    /\ paymentHeader' = Null
    /\ paymentRequirements' = UnsetRequirement
    /\ verified' = UnsetVerifyResponse
    /\ settlement' = UnsetSettleResponse
    /\ handlerCalls' = <<>>
    /\ logicRuns' = <<>>
    /\ facilitatorCalls' = <<>>
    /\ tokenRequests' = 0
    /\ serverErrors' = <<>>
    /\ gateway' = NoGatewayCall
    /\ httpResponse' = NoHttpResponse
    /\ UNCHANGED <<serverConfig, facilitatorClient, clientVars, libraryCall,
                   suspended>>

NextRequests ==
    \/ HandlerExtract
    \/ HandlerCreateRequirements
    \/ HandlerChallenge
    \/ HandlerVerify
    \/ HandlerInvalid
    \/ HandlerBusinessLogic
    \/ HandlerSettle
    \/ HandlerRespond
    \/ HandlerNextRequest

SpecRequests == InitServer /\ [][NextRequests]_vars

----------------------------------------------------------------------------
\* The gateway as a state machine: one operation called on a FacilitatorClient

InitGateway ==
    /\ serverConfig = ServerConfigOf(SolanaDevnet, "", "", 0)
    /\ facilitatorClient \in FacilitatorClients
    /\ reqHeaders = [kind |-> "Headers", entries |-> {}]
    /\ spc = "gateway"
    /\ paymentHeader = Null
    /\ paymentRequirements = UnsetRequirement
    /\ verified = UnsetVerifyResponse
    /\ settlement = UnsetSettleResponse
    /\ handlerCalls = <<>>
    /\ logicRuns = <<>>
    /\ facilitatorCalls = <<>>
    /\ tokenRequests = 0
    /\ serverErrors = <<>>
    /\ gateway = NoGatewayCall
    /\ httpResponse = NoHttpResponse
    /\ libraryCall = NoCall
    /\ served = <<>>
    /\ ClientIdle

NextGateway ==
    \/ GatewayVerifyPayment
    \/ GatewaySettlePayment
    \/ GatewayGetFeePayer

SpecGateway == InitGateway /\ [][NextGateway]_vars

----------------------------------------------------------------------------
\* JavaScript numbers (IEEE 754 binary64) and the amount helpers
\* (src/utils/helpers.ts, lines 143-158)
\*
\* A natural number is held as the sequence of its digits to the base
\* LimbBase ("limbs"), least significant first and without leading zeros.
\* A number is m * 2^e with m of at most SignificandBits binary digits, as
\* binary64 stores it.

SignificandBits == 53
LimbBits == 15
LimbBase == 2 ^ LimbBits

RECURSIVE NatLimbs(_)
NatLimbs(n) == IF n = 0 THEN <<>> ELSE <<n % LimbBase>> \o NatLimbs(n \div LimbBase)

\* the natural number of at most three limbs
LimbsNat(l) ==
    (IF Len(l) >= 1 THEN l[1] ELSE 0)
    + (IF Len(l) >= 2 THEN l[2] * LimbBase ELSE 0)
    + (IF Len(l) >= 3 THEN l[3] * LimbBase * LimbBase ELSE 0)

\* l without its leading zeros
Trim(l) ==
    IF \A i \in 1..Len(l) : l[i] = 0 THEN <<>>
    ELSE SubSeq(l, 1, CHOOSE i \in 1..Len(l) :
                         l[i] # 0 /\ \A j \in (i + 1)..Len(l) : l[j] = 0)

\* the count of binary digits of l, and its i-th binary digit from below
BitLength(l) ==
    IF l = <<>> THEN 0
    ELSE LimbBits * (Len(l) - 1)
         + CHOOSE j \in 1..LimbBits : 2 ^ (j - 1) <= l[Len(l)] /\ l[Len(l)] < 2 ^ j

Bit(l, i) == (l[((i - 1) \div LimbBits) + 1] \div (2 ^ ((i - 1) % LimbBits))) % 2

\* l * k + carry, for a small k
RECURSIVE MulCarry(_, _, _)
MulCarry(l, k, carry) ==
    IF l = <<>> THEN NatLimbs(carry)
    ELSE LET t == l[1] * k + carry
         IN <<t % LimbBase>> \o MulCarry(Tail(l), k, t \div LimbBase)

\* the limbs i..1 of l divided by a small k, r being the remainder of the
\* limbs above
RECURSIVE DivFrom(_, _, _, _)
DivFrom(l, i, k, r) ==
    IF i = 0 THEN [q |-> <<>>, r |-> r]
    ELSE LET t == r * LimbBase + l[i]
             rest == DivFrom(l, i - 1, k, t % k)
         IN [q |-> rest.q \o <<t \div k>>, r |-> rest.r]

\* the powers of ten are applied at most four decimals at a time, which
\* keeps every intermediate product below 2^31
StepOf(d) == IF d < 4 THEN d ELSE 4

\* l * 10^d
RECURSIVE MulPow10(_, _)
MulPow10(l, d) ==
    IF d = 0 THEN l
    ELSE MulPow10(Trim(MulCarry(l, 10 ^ StepOf(d), 0)), d - StepOf(d))

\* l divided by 10^d: the quotient, and whether the division was inexact
RECURSIVE DivPow10(_, _, _)
DivPow10(l, d, inexact) ==
    IF d = 0 THEN [q |-> l, inexact |-> inexact]
    ELSE LET q == DivFrom(l, Len(l), 10 ^ StepOf(d), 0)
         IN DivPow10(Trim(q.q), d - StepOf(d), inexact \/ q.r # 0)

\* l * LimbBase^n, l * 2^n and l divided by 2^n
ShiftLimbs(l, n) == IF l = <<>> THEN <<>> ELSE [i \in 1..n |-> 0] \o l

ShiftLeft(l, n) ==
    ShiftLimbs(Trim(MulCarry(l, 2 ^ (n % LimbBits), 0)), n \div LimbBits)

ShiftRight(l, n) ==
    LET a == n \div LimbBits
        s == n % LimbBits
    IN Trim([j \in 1..(Len(l) - a) |->
               (l[j + a] \div (2 ^ s))
               + (IF j + a + 1 <= Len(l)
                  THEN (l[j + a + 1] % (2 ^ s)) * (2 ^ (LimbBits - s))
                  ELSE 0)])

\* l, below which the digits were inexact when sticky, rounded to the nearest
\* number of SignificandBits binary digits, ties to even: m * 2^shift
RoundToNearest(l, sticky) ==
    IF BitLength(l) <= SignificandBits THEN [m |-> l, shift |-> 0]
    ELSE LET drop == BitLength(l) - SignificandBits
             kept == ShiftRight(l, drop)
             more == sticky \/ \E i \in 1..(drop - 1) : Bit(l, i) = 1
             up == Bit(l, drop) = 1 /\ (more \/ kept[1] % 2 = 1)
         IN [m |-> IF up THEN MulCarry(kept, 1, 1) ELSE kept, shift |-> drop]

\* the number m * 2^e in its one form: m odd, or zero
Number(m, e) ==
    IF m = <<>> THEN [m |-> <<>>, e |-> 0]
    ELSE LET z == CHOOSE i \in 1..BitLength(m) :
                      Bit(m, i) = 1 /\ \A j \in 1..(i - 1) : Bit(m, j) = 0
         IN [m |-> ShiftRight(m, z - 1), e |-> e + z - 1]

\* limbs of precision a quotient is computed with before it is rounded
QuotientLimbs == 6

\* n / 10^d as binary64 computes it, for a natural n: the quotient rounded to
\* nearest; it is also the value of the number literal n e-d
Quotient(n, d) ==
    LET q == DivPow10(ShiftLimbs(NatLimbs(n), QuotientLimbs), d, FALSE)
        r == RoundToNearest(q.q, q.inexact)
    IN Number(r.m, r.shift - LimbBits * QuotientLimbs)

\* x * 10^d as binary64 computes it (10^d is a number binary64 holds exactly)
Times(x, d) ==
    LET r == RoundToNearest(MulPow10(x.m, d), FALSE)
    IN Number(r.m, x.e + r.shift)

\* Math.floor(x), a natural number in limbs
Floor(x) == IF x.e >= 0 THEN ShiftLeft(x.m, x.e) ELSE ShiftRight(x.m, -x.e)

\* a number literal of digits and a count of decimals: 4.1 is Literal(41, 1)
Literal(digits, scale) == [digits |-> digits, scale |-> scale]
NumberOf(l) == Quotient(l.digits, l.scale)

\* toAtomicUnits, line 144
toAtomicUnits(amount, decimals) ==
    ToString(LimbsNat(Floor(Times(amount, decimals))))

\* amounts and decimals the helpers are applied to: those of the tests and
\* of the README, and amounts of one to three decimals
AmountLiterals ==
    { Literal(0, 0), Literal(1, 0), Literal(10, 0), Literal(100, 0),
      Literal(5, 1), Literal(15, 1), Literal(25, 1), Literal(1, 6), Literal(1, 7),
      Literal(19999999, 7), Literal(41, 1), Literal(82, 1), Literal(201, 2),
      Literal(57, 2), Literal(249, 6) }

TokenDecimals == {2, 6, 9}

\* the amounts whose atomic units are below MaxAtomicUnits
MaxAtomicUnits == 2000000000

Fits(l, decimals) ==
    \/ l.scale >= decimals
    \/ l.digits <= MaxAtomicUnits \div (10 ^ (decimals - l.scale))

AmountInputs == { p \in AmountLiterals \X TokenDecimals : Fits(p[1], p[2]) }

\* the atomic units of the calls
AtomicUnits ==
    { LimbsNat(Floor(Times(NumberOf(p[1]), p[2]))) : p \in AmountInputs }
    \cup {1, 10, 500000, 1000000, 1500000, 2500000, 1000000000}

\* Number(atomicUnits) of a decimal string
NumberOfString(text) == CHOOSE n \in AtomicUnits : ToString(n) = text

\* fromAtomicUnits, line 157
fromAtomicUnits(atomicUnits, decimals) ==
    Quotient(NumberOfString(atomicUnits), decimals)

----------------------------------------------------------------------------
\* The methods of a handler and the network functions, called one at a time

\* configurations a handler is constructed with: the network, and the
\* defaults given or left out
CallServerConfigs ==
    ServerConfigs
    \cup { [ServerConfigOf(n, "", "", t) EXCEPT !.defaultDescription = "Premium content"] :
             n \in {Solana, SolanaDevnet}, t \in {0, 120} }

\* routes: the README's, and routes that give or leave out the options
RouteConfigs ==
    { RouteConfigOf(a, "4zMMC9srt5Ri5X14GAgXhaHii3GnPAEERYPJgZJDncDU", d, m, t) :
        a \in {"2500000", "0"}, d \in {"", "AI Chat Request"},
        m \in {"", "text/event-stream"}, t \in {<<>>, <<0>>, <<60>>} }

ResourceUrls == {ChatUrl, "https://example.com/api/premium"}

\* requirements create402Response is given: made by createPaymentRequirements,
\* or written by the caller with a description or a MIME type left out
GivenRequirements ==
    { createPaymentRequirements(HandlerConfig(c), r, ChatUrl, "FeePayerDevnet") :
        c \in CallServerConfigs, r \in {ChatRoute} }
    \cup { [createPaymentRequirements(HandlerConfig(ServerConfigOf(Solana, "", "", 0)),
                                      ChatRoute, ChatUrl, "FeePayerMainnet")
             EXCEPT !.extra.description = d, !.extra.mimeType = m] :
             d \in {"", "AI Chat Request"}, m \in {"", "text/event-stream"} }

\* network strings the network functions are applied to
NetworkStrings ==
    { Solana, SolanaDevnet, SOLANA_MAINNET_CAIP2, SOLANA_DEVNET_CAIP2,
      <<"solana", ":", "unknown">>, <<"solana", ":">>, <<"solana", "-mainnet">>,
      <<"Solana">>, <<"ethereum">>, <<"eip155", ":", "1">>, Eip155Base, <<"base">>,
      <<>> }

\* the simple name when every identifier but devnet's is taken for mainnet
MainnetUnlessDevnet(network) ==
    IF network = SOLANA_DEVNET_CAIP2 \/ network = SolanaDevnet
    THEN SolanaDevnet
    ELSE Solana

\* toSimpleNetwork (src/types/index.ts, lines 105-110)
toSimpleNetwork(network) ==
    IF network = SOLANA_MAINNET_CAIP2 \/ network = Solana
    THEN Solana
    ELSE SolanaDevnet

CallFrame == <<serverConfig, facilitatorClient, reqHeaders, paymentHeader,
               verified, settlement, logicRuns, httpResponse, served, suspended>>

\* handler.createPaymentRequirements(routeConfig, resourceUrl)
CallCreatePaymentRequirements ==
    /\ spc = "call"
    /\ \E routeConfig \in RouteConfigs, resourceUrl \in ResourceUrls,
          tokenOk \in BOOLEAN, answer \in SupportedAnswers :
         LET hc == HandlerConfig(serverConfig)
             o == getFeePayer(facilitatorClient, hc.network, tokenOk, answer)
             made == IF o.threw THEN UnsetRequirement
                     ELSE createPaymentRequirements(hc, routeConfig, resourceUrl, o.value)
         IN /\ gateway' = GatewayCall("getFeePayer", Null, UnsetRequirement,
                                      hc.network, answer, tokenOk, o.threw, o.value)
            /\ facilitatorCalls' = facilitatorCalls \o o.sent
            /\ tokenRequests' = tokenRequests + o.tokens
            /\ serverErrors' = serverErrors \o o.errors
            /\ paymentRequirements' = made
            /\ libraryCall' = Call("createPaymentRequirements",
                                   <<routeConfig, resourceUrl>>, o.threw, made)
    /\ spc' = "returned"
    /\ handlerCalls' = Append(handlerCalls, "createPaymentRequirements")
    /\ UNCHANGED CallFrame
    /\ UNCHANGED clientVars

\* handler.create402Response(requirements, resourceUrl)
CallCreate402Response ==
    /\ spc = "call"
    /\ \E requirements \in GivenRequirements, resourceUrl \in ResourceUrls :
         libraryCall' = Call("create402Response", <<requirements, resourceUrl>>, FALSE,
                             create402Response(requirements, resourceUrl))
    /\ spc' = "returned"
    /\ handlerCalls' = Append(handlerCalls, "create402Response")
    /\ UNCHANGED <<CallFrame, paymentRequirements, facilitatorCalls, tokenRequests,
                   serverErrors, gateway>>
    /\ UNCHANGED clientVars

\* what a call of a function of one network string leaves alone
NetworkCallFrame == <<CallFrame, handlerCalls, paymentRequirements, facilitatorCalls,
                      tokenRequests, serverErrors, gateway, clientVars>>

\* toCAIP2Network takes a SolanaNetworkSimple
SimpleNetworks == {Solana, SolanaDevnet}

CallToCAIP2Network ==
    /\ spc = "call"
    /\ \E network \in SimpleNetworks :
         libraryCall' = Call("toCAIP2Network", <<network>>, FALSE, toCAIP2Network(network))
    /\ spc' = "returned"
    /\ UNCHANGED NetworkCallFrame

CallToSimpleNetwork ==
    /\ spc = "call"
    /\ \E network \in NetworkStrings :
         libraryCall' = Call("toSimpleNetwork", <<network>>, FALSE, toSimpleNetwork(network))
    /\ spc' = "returned"
    /\ UNCHANGED NetworkCallFrame

CallIsSolanaNetwork ==
    /\ spc = "call"
    /\ \E network \in NetworkStrings :
         libraryCall' = Call("isSolanaNetwork", <<network>>, FALSE, isSolanaNetwork(network))
    /\ spc' = "returned"
    /\ UNCHANGED NetworkCallFrame

CallIsSolanaMainnet ==
    /\ spc = "call"
    /\ \E network \in NetworkStrings :
         libraryCall' = Call("isSolanaMainnet", <<network>>, FALSE, isSolanaMainnet(network))
    /\ spc' = "returned"
    /\ UNCHANGED NetworkCallFrame

CallIsSolanaDevnet ==
    /\ spc = "call"
    /\ \E network \in NetworkStrings :
         libraryCall' = Call("isSolanaDevnet", <<network>>, FALSE, isSolanaDevnet(network))
    /\ spc' = "returned"
    /\ UNCHANGED NetworkCallFrame

\* toAtomicUnits(amount, decimals), the amount written as a number literal
CallToAtomicUnits ==
    /\ spc = "call"
    /\ \E p \in AmountInputs :
         libraryCall' = Call("toAtomicUnits", p, FALSE,
                             toAtomicUnits(NumberOf(p[1]), p[2]))
    /\ spc' = "returned"
    /\ UNCHANGED NetworkCallFrame

\* fromAtomicUnits(atomicUnits, decimals), the atomic units a decimal string
CallFromAtomicUnits ==
    /\ spc = "call"
    /\ \E n \in AtomicUnits, decimals \in TokenDecimals :
         libraryCall' = Call("fromAtomicUnits", <<ToString(n), decimals>>, FALSE,
                             fromAtomicUnits(ToString(n), decimals))
    /\ spc' = "returned"
    /\ UNCHANGED NetworkCallFrame

InitCalls ==
    /\ serverConfig \in CallServerConfigs
    /\ facilitatorClient = HandlerFacilitatorClient(serverConfig)
    /\ reqHeaders = [kind |-> "Headers", entries |-> {}]
    /\ spc = "call"
    /\ paymentHeader = Null
    /\ paymentRequirements = UnsetRequirement
    /\ verified = UnsetVerifyResponse
    /\ settlement = UnsetSettleResponse
    /\ handlerCalls = <<>>
    /\ logicRuns = <<>>
    /\ facilitatorCalls = <<>>
    /\ tokenRequests = 0
    /\ serverErrors = <<>>
    /\ gateway = NoGatewayCall
    /\ httpResponse = NoHttpResponse
    /\ libraryCall = NoCall
    /\ served = <<>>
    /\ ClientIdle

NextCalls ==
    \/ CallCreatePaymentRequirements
    \/ CallCreate402Response
    \/ CallToCAIP2Network
    \/ CallToSimpleNetwork
    \/ CallIsSolanaNetwork
    \/ CallIsSolanaMainnet
    \/ CallIsSolanaDevnet
    \/ CallToAtomicUnits
    \/ CallFromAtomicUnits

SpecCalls == InitCalls /\ [][NextCalls]_vars

----------------------------------------------------------------------------
\* Properties of the negotiated fetch

\* the first response is there, and it is a payment challenge
Challenged == response # NoResponse /\ response.status = 402

\* the response carries a PAYMENT-REQUIRED header, whatever its value
HasPaymentRequiredHeader ==
    \E e \in response.headers : e[1] = LowerCase("PAYMENT-REQUIRED")

\* the entries of the retry's headers under a name
RetryEntries(name) == { e \in calls[2].init.headers.entries : e[1] = name }

\* the payload the retry carries under a name, decoded the way the gateway does
RetryPayload(name) ==
    JSONparse(safeBase64Decode((CHOOSE e \in RetryEntries(name) : TRUE)[2]))

\* C1: a first response whose status is not 402 is returned as it is, after
\* exactly one transport call made with the caller's input and init, and with
\* no ledger read, no wallet call and no retry
NonPaymentResponseReturned ==
    (response # NoResponse /\ response.status # 402) =>
        /\ pc = "DONE"
        /\ result = Returned(response)
        /\ calls = <<[input |-> input, init |-> init]>>
        /\ inFlight = 0
        /\ ledgerReads = <<>>
        /\ signCalls = <<>>

NonPaymentResponseSeen ==
    /\ pc = "DONE"
    /\ response.status = 404
    /\ init.given
    /\ result = Returned(response)
    /\ Len(calls) = 1

\* what C2 promises of a challenge that `carries` the header: it is decoded
\* from the header, and a retry attaches a v2 payload as PAYMENT-SIGNATURE
HeaderChallengeNegotiatedAsV2(carries) ==
    (Challenged /\ carries) =>
        LET h == HeadersGet(response.headers, "PAYMENT-REQUIRED")
        IN /\ protocolVersion \in {0, 2}
           /\ protocolVersion = 0 => pc \in {"CHALLENGED", "FAILED"} /\ Len(calls) = 1
           /\ protocolVersion = 2 =>
                /\ Decodable(h)
                /\ paymentRequired = JSONparse(safeBase64Decode(h))
           /\ Len(calls) = 2 =>
                /\ Cardinality(RetryEntries("PAYMENT-SIGNATURE")) = 1
                /\ RetryEntries("X-PAYMENT") = {}
                /\ RetryPayload("PAYMENT-SIGNATURE").x402Version = 2
                /\ {"resource", "accepted"} \subseteq
                       RetryPayload("PAYMENT-SIGNATURE").fields

Offered == ParsedPaymentRequirements(paymentRequired)

\* no offered requirement has scheme 'exact' and a Solana-family network
NothingSuitableOffered ==
    \A i \in 1..Len(Offered) :
        ~(Offered[i].scheme = "exact" /\ isSolanaNetwork(Offered[i].network))

\* C4: when no offered requirement has scheme 'exact' and a Solana-family
\* network, the fetch fails with 'No suitable Solana payment requirements
\* found', having made one transport call, no ledger read and no wallet call
NoSuitableRequirementFails ==
    (protocolVersion # 0 /\ pc # "SELECTING" /\ NothingSuitableOffered) =>
        /\ pc = "FAILED"
        /\ result = Threw("No suitable Solana payment requirements found")
        /\ signCalls = <<>>
        /\ ledgerReads = <<>>
        /\ Len(calls) = 1
        /\ inFlight = 0

OnlyOtherNetworkOffered ==
    /\ pc = "FAILED"
    /\ Len(Offered) = MaxAccepts
    /\ \A i \in 1..Len(Offered) :
         Offered[i].scheme = "exact" /\ Offered[i].network = Eip155Base
    /\ result.error = "No suitable Solana payment requirements found"

\* the ceiling check of the selected requirement is over
CeilingChecked ==
    /\ selectedRequirements # UnsetRequirement
    /\ pc # "CEILING"
    /\ IsIntegerString(PaymentAmountString(selectedRequirements))

SelectedAmount == BigInt(PaymentAmountString(selectedRequirements))

ExceedsError == "Payment amount exceeds maximum allowed"

\* C5: with a ceiling maxValue > 0, a selected amount above maxValue fails
\* the fetch with 'Payment amount exceeds maximum allowed' before any ledger
\* read or wallet call and without a retry; an amount equal to maxValue goes
\* on to assembly; with maxValue = 0 the check rejects nothing
CeilingEnforced ==
    CeilingChecked =>
        /\ (maxValue > 0 /\ SelectedAmount > maxValue) =>
             /\ pc = "FAILED"
             /\ result = Threw(ExceedsError)
             /\ ledgerReads = <<>>
             /\ signCalls = <<>>
             /\ Len(calls) = 1
        /\ (maxValue > 0 /\ SelectedAmount = maxValue) =>
             /\ result.error # ExceedsError
             /\ tx.step # ""
        /\ maxValue = 0 =>
             /\ result.error # ExceedsError
             /\ tx.step # ""

AmountOverCeilingRejected ==
    /\ CeilingChecked
    /\ maxValue = Ceiling
    /\ SelectedAmount = Ceiling + 1
    /\ pc = "FAILED"
    /\ result = Threw(ExceedsError)

\* C6: a client created with {wallet, network, amount: L}, L > 0, fails a
\* negotiation whose selected requirement asks for more than L with 'Payment
\* amount exceeds maximum allowed', and the wallet signs nothing
ConfiguredAmountIsCeiling ==
    (/\ config.amount # <<>>
     /\ CeilingChecked
     /\ config.amount[1] > 0
     /\ SelectedAmount > config.amount[1]) =>
        /\ pc = "FAILED"
        /\ result = Threw(ExceedsError)
        /\ signCalls = <<>>

\* C7: a negotiation makes at most two transport calls, never two at a time;
\* the second is made once, after the first was answered with a 402 and the
\* wallet returned the signed transaction, and carries the payload built
\* from it; its response ends the negotiation whatever its status; the wallet
\* is asked to sign at most once
AtMostOneRetry ==
    /\ Len(calls) <= 2
    /\ inFlight <= 1
    /\ Len(signCalls) <= 1
    /\ Len(calls) = 2 =>
         /\ Challenged
         /\ Len(signCalls) = 1
         /\ tx.step = "returned"
         /\ signedTransaction.message = signCalls[1].message
         /\ \E e \in calls[2].init.headers.entries :
              /\ IsBase64(e[2])
              /\ IsJSON(safeBase64Decode(e[2]))
              /\ JSONparse(safeBase64Decode(e[2])).payload.transaction =
                     Base64Encode(Serialize(signedTransaction))
         /\ inFlight = 1 <=> pc = "RETRYING"
         /\ pc \in {"RETRYING", "DONE", "FAILED"}
         /\ pc = "DONE" => result.kind = "returned" /\ result.response \in RetryResponses
         /\ pc = "FAILED" => result = Threw("fetch failed")

SecondChallengeReturned ==
    /\ pc = "DONE"
    /\ Len(calls) = 2
    /\ result.kind = "returned"
    /\ result.response.status = 402

----------------------------------------------------------------------------
\* Properties of the handler sequence

\* how often the route called a method of the handler
Called(method) == Len(SelectSeq(handlerCalls, LAMBDA c : c = method))

\* the requests the gateway sent to a path of the facilitator
SentTo(path) ==
    { i \in 1..Len(facilitatorCalls) : facilitatorCalls[i].url[2] = path }

\* C8: the protected logic runs only for an extracted payment header that
\* verifyPayment found valid; without a payment header the answer is the 402
\* challenge and neither verifyPayment nor settlePayment is called; after
\* isValid false the answer is a 402 with the invalidReason, and neither the
\* protected logic nor settlePayment runs
PaymentGatesLogic ==
    /\ Len(logicRuns) <= 1
    /\ Len(logicRuns) = 1 =>
         /\ paymentHeader = extractPayment(reqHeaders)
         /\ Truthy(paymentHeader)
         /\ Called("verifyPayment") = 1
         /\ verified.json = "object"
         /\ verified.isValid
    /\ httpResponse.kind = "result" => logicRuns = <<"result">>
    /\ (spc # "extract" /\ ~Truthy(paymentHeader)) =>
         /\ Called("verifyPayment") = 0
         /\ Called("settlePayment") = 0
         /\ SentTo("/verify") = {}
         /\ SentTo("/settle") = {}
         /\ logicRuns = <<>>
         /\ spc = "done" =>
              httpResponse = HttpResponse(402, "challenge", "", <<paymentRequirements>>)
    /\ (Called("verifyPayment") = 1 /\ verified.json = "object" /\ ~verified.isValid) =>
         /\ logicRuns = <<>>
         /\ Called("settlePayment") = 0
         /\ SentTo("/settle") = {}
         /\ spc \in {"verified", "done"}
         /\ spc = "done" =>
              httpResponse = HttpResponse(402, "invalid", verified.invalidReason, <<>>)

InvalidPaymentRefused ==
    /\ spc = "done"
    /\ Truthy(paymentHeader)
    /\ verified.invalidReason = "insufficient_funds"
    /\ httpResponse.status = 402
    /\ httpResponse.reason = "insufficient_funds"

\* C9: settlePayment is called at most once, and once for every request
\* answered with the result, only after verifyPayment found the payment valid
\* and the protected logic produced its result; the result is the answer
\* whether the settlement reports success or failure
SettledOnceAfterLogic ==
    /\ Called("settlePayment") <= 1
    /\ Called("settlePayment") = 1 =>
         /\ handlerCalls = <<"extractPayment", "createPaymentRequirements",
                             "verifyPayment", "settlePayment">>
         /\ verified.json = "object" /\ verified.isValid
         /\ logicRuns = <<"result">>
    /\ logicRuns = <<"threw">> => Called("settlePayment") = 0
    /\ httpResponse.kind = "result" => Called("settlePayment") = 1
    /\ (Called("settlePayment") = 1 /\ spc # "settled" /\ settlement.json = "object") =>
         /\ spc = "done"
         /\ httpResponse = HttpResponse(200, "result", "", <<>>)

ResultReturnedAfterFailedSettlement ==
    /\ spc = "done"
    /\ Called("settlePayment") = 1
    /\ ~settlement.success
    /\ settlement.errorReason = "insufficient_funds"
    /\ httpResponse.kind = "result"

----------------------------------------------------------------------------
\* Properties of the gateway

\* the operation sent its request and the facilitator answered with a status
Answered == Len(facilitatorCalls) = 1 /\ ~gateway.answer.networkError

\* C10: verifyPayment never throws; a non-2xx answer to POST /verify gives
\* the local result {isValid: false, invalidReason: 'unexpected_verify_error'},
\* a 2xx answer gives the facilitator's JSON body as it is, also with isValid
\* false
VerifyNeverThrows ==
    gateway.op = "verifyPayment" =>
        /\ ~gateway.threw
        /\ spc = "returned"
        /\ (Answered /\ ~(gateway.answer.status \in 200..299)) =>
             verified = VerifyResponseOf("object", FALSE, "unexpected_verify_error", "")
        /\ (Answered /\ gateway.answer.status \in 200..299
                     /\ IsJSON(gateway.answer.body)) =>
             JSONstringify(verified) = gateway.answer.body

RejectionPassedThrough ==
    /\ gateway.op = "verifyPayment"
    /\ Answered
    /\ gateway.answer.status = 200
    /\ ~verified.isValid
    /\ verified.invalidReason = "insufficient_funds"

\* C11: settlePayment never throws; a non-2xx answer to POST /settle gives the
\* local result {success: false, errorReason: 'unexpected_settle_error',
\* transaction: '', network: the network of the requirement it was called
\* with}, a 2xx answer gives the facilitator's JSON body as it is, also with
\* success false
SettleNeverThrows ==
    gateway.op = "settlePayment" =>
        /\ ~gateway.threw
        /\ spc = "returned"
        /\ (Answered /\ ~(gateway.answer.status \in 200..299)) =>
             settlement = SettleResponseOf("object", FALSE, "unexpected_settle_error",
                                           "", gateway.requirements.network)
        /\ (Answered /\ gateway.answer.status \in 200..299
                     /\ IsJSON(gateway.answer.body)) =>
             JSONstringify(settlement) = gateway.answer.body

SettleFailedLocally ==
    /\ gateway.op = "settlePayment"
    /\ Answered
    /\ gateway.answer.status = 500
    /\ ~settlement.success
    /\ settlement.network = SolanaDevnet
    /\ gateway.requirements.network = SolanaDevnet

\* the operation's request was sent and met a transport-level failure
TransportFailed ==
    /\ Len(facilitatorCalls) = 1
    /\ gateway.answer.networkError \/ ~(gateway.answer.status \in 200..299)

\* what the operation returns for the 2xx JSON answers of the facilitator
VerifyResultsOf2xx ==
    { JSONparse(a.body) :
        a \in { b \in VerifyAnswers :
                  ~b.networkError /\ b.status \in 200..299 /\ IsJSON(b.body) } }

SettleResultsOf2xx ==
    { JSONparse(a.body) :
        a \in { b \in SettleAnswers :
                  ~b.networkError /\ b.status \in 200..299 /\ IsJSON(b.body) } }

\* C12: what verifyPayment and settlePayment return after a transport-level
\* failure (network error or non-2xx status) differs from everything they
\* return for a 2xx answer of the facilitator
TransportFailureDistinct ==
    /\ (gateway.op = "verifyPayment" /\ TransportFailed) =>
           verified \notin VerifyResultsOf2xx
    /\ (gateway.op = "settlePayment" /\ TransportFailed) =>
           settlement \notin SettleResultsOf2xx

\* the kinds GET /supported answered with
AnsweredKinds ==
    IF JSONparse(gateway.answer.body).hasKinds
    THEN JSONparse(gateway.answer.body).kinds ELSE <<>>

\* two network identifiers name the same network, in whichever spelling
SameNetworkType(a, b) ==
    \/ isSolanaMainnet(a) /\ isSolanaMainnet(b)
    \/ isSolanaDevnet(a) /\ isSolanaDevnet(b)

\* C13: getFeePayer(network) returns the fee payer of a supported kind with
\* scheme 'exact' on the same network type as the requested network (mainnet
\* for mainnet, devnet for devnet), whichever spelling either uses, and it
\* returns one whenever the first such kind carries a fee payer
FeePayerOfSameNetworkType ==
    (gateway.op = "getFeePayer" /\ Answered /\ gateway.answer.status \in 200..299
                                /\ IsJSON(gateway.answer.body)) =>
        /\ spc = "returned" =>
             \E i \in 1..Len(AnsweredKinds) :
                /\ AnsweredKinds[i].scheme = "exact"
                /\ AnsweredKinds[i].extra.feePayer = gateway.feePayer
                /\ SameNetworkType(AnsweredKinds[i].network, gateway.network)
        /\ (/\ Len(AnsweredKinds) = 1
            /\ AnsweredKinds[1].scheme = "exact"
            /\ AnsweredKinds[1].extra.feePayer # ""
            /\ SameNetworkType(AnsweredKinds[1].network, gateway.network)) =>
             spc = "returned" /\ gateway.feePayer = AnsweredKinds[1].extra.feePayer

\* GET /supported was answered with a 2xx status and a JSON body
DiscoveryAnswered ==
    /\ gateway.op = "getFeePayer"
    /\ ~gateway.answer.networkError
    /\ gateway.answer.status \in 200..299
    /\ IsJSON(gateway.answer.body)
    /\ NeedsToken(facilitatorClient) => gateway.tokenOk

\* the first answered kind that getFeePayer's search accepts, 0 if none
MatchingKind == FindKind(AnsweredKinds, gateway.network)

----------------------------------------------------------------------------
\* Properties of the handler's methods

\* a header value that is a non-empty string
IsNonEmptyString(v) == v[1] \in {"str", "base64"} /\ v # EmptyString

\* the spellings of the two payment header names that extractPayment's own
\* lookups use for the legacy name
ExactPaymentNames == {"X-PAYMENT", "x-payment", "PAYMENT-SIGNATURE", "payment-signature"}

\* C15: extractPayment returns the value of whichever payment header the
\* request carries, PAYMENT-SIGNATURE or X-PAYMENT, and null only when it
\* carries neither
VersionInsensitiveExtraction ==
    spc # "extract" =>
        \A e \in reqHeaders.entries :
            (e[1] \in ExactPaymentNames /\ IsNonEmptyString(e[2])) =>
                paymentHeader = e[2]

\* C16: extractPayment finds the payment header under any capitalisation of
\* its name ('X-PAYMENT', 'x-payment', 'X-Payment'), in a Headers object and
\* in a plain object alike, and returns the first element of an array value
CaseInsensitiveExtraction ==
    spc # "extract" =>
        \A e \in reqHeaders.entries :
            LowerCase(e[1]) = "x-payment" =>
                /\ IsNonEmptyString(e[2]) => paymentHeader = e[2]
                /\ (IsArray(e[2]) /\ Len(e[2][2]) > 0) => paymentHeader = e[2][2][1]
\* the requirement a call of createPaymentRequirements returned, and the
\* route and the URL the call was given
RequirementsMade == libraryCall.op = "createPaymentRequirements" /\ ~libraryCall.threw
MadeRoute == libraryCall.args[1]
MadeUrl == libraryCall.args[2]
Made == libraryCall.value

\* the fields of the requirement other than its timeout
MadeFromRouteAndConfig ==
    /\ Made.scheme = "exact"
    /\ serverConfig.network = Solana => Made.network = SOLANA_MAINNET_CAIP2
    /\ serverConfig.network = SolanaDevnet => Made.network = SOLANA_DEVNET_CAIP2
    /\ Made.amount = MadeRoute.amount
    /\ Made.payTo = serverConfig.treasuryAddress
    /\ Made.asset = MadeRoute.asset.address
    /\ gateway.op = "getFeePayer" /\ gateway.network = Made.network
    /\ ~gateway.threw /\ Made.extra.feePayer = gateway.feePayer
    /\ Made.extra.description =
         (IF MadeRoute.description # "" THEN MadeRoute.description
          ELSE IF serverConfig.defaultDescription # ""
               THEN serverConfig.defaultDescription
               ELSE "Payment required")
    /\ Made.extra.mimeType =
         (IF MadeRoute.mimeType # "" THEN MadeRoute.mimeType ELSE "application/json")
    /\ Made.extra.resource = MadeUrl

ConfiguredTimeout ==
    IF serverConfig.defaultTimeoutSeconds # 0 THEN serverConfig.defaultTimeoutSeconds
    ELSE 300

\* C17 as stated: createPaymentRequirements returns scheme 'exact', the CAIP-2
\* network of the configuration, the route's amount and asset, the treasury,
\* the gateway's fee payer, description, MIME type and resource, and as
\* maxTimeoutSeconds the route's value whenever the route gives one
RouteTimeoutWhenGiven ==
    RequirementsMade =>
        /\ MadeFromRouteAndConfig
        /\ Made.maxTimeoutSeconds =
             (IF MadeRoute.maxTimeoutSeconds # <<>> THEN MadeRoute.maxTimeoutSeconds[1]
              ELSE ConfiguredTimeout)

\* C17: createPaymentRequirements returns scheme 'exact', the CAIP-2 network of
\* the configuration, the route's amount and asset, the treasury, the
\* gateway's fee payer, the route's description or else the default one, the
\* route's MIME type or else 'application/json', the resource URL, and as
\* maxTimeoutSeconds the route's value when it is given and not zero, otherwise
\* the configured default (300 when none is configured)
RouteTimeoutWhenNonZero ==
    RequirementsMade =>
        /\ MadeFromRouteAndConfig
        /\ Made.maxTimeoutSeconds =
             (IF MadeRoute.maxTimeoutSeconds \notin {<<>>, <<0>>}
              THEN MadeRoute.maxTimeoutSeconds[1]
              ELSE ConfiguredTimeout)

\* a requirement made from a route with its own timeout and without a
\* description, by a handler without configured defaults
RouteMergedWithDefaults ==
    /\ RequirementsMade
    /\ MadeRoute.maxTimeoutSeconds = <<60>> /\ Made.maxTimeoutSeconds = 60
    /\ MadeRoute.description = "" /\ serverConfig.defaultDescription = ""
    /\ Made.extra.description = "Payment required"
    /\ Made.extra.feePayer = "FeePayerDevnet"
\* C18: create402Response returns status 402 and a body with x402Version 2,
\* the resource URL, the description and the MIME type of the requirement's
\* extra ('' and 'application/json' when they are missing), the error
\* 'Payment required', and an accepts list of the given requirement, unchanged
ChallengeWrapsRequirement ==
    libraryCall.op = "create402Response" =>
        LET given == libraryCall.args[1]
            challenge == libraryCall.value
        IN /\ ~libraryCall.threw
           /\ challenge.status = 402
           /\ challenge.body.x402Version = 2
           /\ challenge.body.resource.url = libraryCall.args[2]
           /\ challenge.body.resource.description = given.extra.description
           /\ given.extra.mimeType # "" =>
                challenge.body.resource.mimeType = given.extra.mimeType
           /\ given.extra.mimeType = "" =>
                challenge.body.resource.mimeType = "application/json"
           /\ challenge.body.error = "Payment required"
           /\ challenge.body.accepts = <<given>>

\* a challenge made of a requirement without description and MIME type, for
\* a URL other than the requirement's resource
ChallengeOfBareRequirement ==
    /\ libraryCall.op = "create402Response"
    /\ libraryCall.args[1].extra.description = ""
    /\ libraryCall.args[1].extra.mimeType = ""
    /\ libraryCall.args[2] # libraryCall.args[1].extra.resource
    /\ libraryCall.value.body.resource.mimeType = "application/json"
    /\ libraryCall.value.body.resource.description = ""
    /\ libraryCall.value.body.accepts[1].extra.mimeType = ""
----------------------------------------------------------------------------
\* Properties of the network functions

CalledNetwork == libraryCall.args[1]
Applied(op) == libraryCall.op = op /\ ~libraryCall.threw

\* C19: toCAIP2Network of toSimpleNetwork of either CAIP-2 identifier is that
\* identifier, toSimpleNetwork of toCAIP2Network of either simple name is that
\* name, and toSimpleNetwork of any other 'solana:' identifier is
\* 'solana-devnet', without an error
NetworkRoundTrip ==
    /\ libraryCall.op \in {"toSimpleNetwork", "toCAIP2Network"} => ~libraryCall.threw
    /\ (/\ Applied("toSimpleNetwork")
        /\ CalledNetwork \in {SOLANA_MAINNET_CAIP2, SOLANA_DEVNET_CAIP2})
           => toCAIP2Network(libraryCall.value) = CalledNetwork
    /\ (/\ Applied("toCAIP2Network")
        /\ CalledNetwork \in {Solana, SolanaDevnet})
           => toSimpleNetwork(libraryCall.value) = CalledNetwork
    /\ (/\ Applied("toSimpleNetwork")
        /\ StartsWithSolanaColon(CalledNetwork)
        /\ CalledNetwork \notin {SOLANA_MAINNET_CAIP2, SOLANA_DEVNET_CAIP2})
           => libraryCall.value = SolanaDevnet

\* toSimpleNetwork('solana:unknown') returned 'solana-devnet'
UnknownChainIsDevnet ==
    /\ Applied("toSimpleNetwork")
    /\ CalledNetwork = <<"solana", ":", "unknown">>
    /\ libraryCall.value = SolanaDevnet
\* the network strings of the calls that are no Solana network
OtherChains == {<<"ethereum">>, <<"eip155", ":", "1">>, <<"base">>, <<>>}

\* the two spellings of each network
MainnetSpellings == {Solana, SOLANA_MAINNET_CAIP2}
DevnetSpellings == {SolanaDevnet, SOLANA_DEVNET_CAIP2}

HasSolanaPrefix(network) ==
    Len(network) >= 2 /\ SubSeq(network, 1, 2) = <<"solana", ":">>

\* C20: isSolanaNetwork is true exactly for 'solana', 'solana-devnet' and the
\* strings starting with 'solana:' (false for 'ethereum', 'eip155:1', 'base'
\* and ''); isSolanaMainnet and isSolanaDevnet are true exactly for the two
\* spellings of their own network, never both, each implies isSolanaNetwork,
\* and an unrecognized 'solana:' identifier is neither mainnet nor devnet
NetworkPredicatesExact ==
    /\ Applied("isSolanaNetwork") =>
         /\ libraryCall.value <=>
              (CalledNetwork \in {Solana, SolanaDevnet} \/ HasSolanaPrefix(CalledNetwork))
         /\ CalledNetwork \in OtherChains => ~libraryCall.value
    /\ Applied("isSolanaMainnet") =>
         /\ libraryCall.value <=> CalledNetwork \in MainnetSpellings
         /\ libraryCall.value =>
              isSolanaNetwork(CalledNetwork) /\ ~isSolanaDevnet(CalledNetwork)
    /\ Applied("isSolanaDevnet") =>
         /\ libraryCall.value <=> CalledNetwork \in DevnetSpellings
         /\ libraryCall.value =>
              isSolanaNetwork(CalledNetwork) /\ ~isSolanaMainnet(CalledNetwork)
    /\ (/\ libraryCall.op \in {"isSolanaMainnet", "isSolanaDevnet"}
        /\ HasSolanaPrefix(CalledNetwork)
        /\ CalledNetwork \notin (MainnetSpellings \cup DevnetSpellings))
           => libraryCall.value = FALSE

\* isSolanaNetwork('solana:unknown') returned true
UnknownChainIsSolana ==
    /\ Applied("isSolanaNetwork")
    /\ CalledNetwork = <<"solana", ":", "unknown">>
    /\ libraryCall.value = TRUE
----------------------------------------------------------------------------
\* Properties of the amount helpers

\* floor(amount * 10^decimals) of the amount a literal denotes
ExactFloor(l, decimals) ==
    IF l.scale <= decimals THEN l.digits * (10 ^ (decimals - l.scale))
    ELSE l.digits \div (10 ^ (l.scale - decimals))

\* a < b, and a - b for a >= b, for natural numbers in limbs
Less(a, b) ==
    \/ Len(a) < Len(b)
    \/ /\ Len(a) = Len(b)
       /\ \E i \in 1..Len(a) : a[i] < b[i] /\ \A j \in (i + 1)..Len(a) : a[j] = b[j]

RECURSIVE SubBorrow(_, _, _)
SubBorrow(a, b, borrow) ==
    IF a = <<>> THEN <<>>
    ELSE LET t == a[1] - (IF b = <<>> THEN 0 ELSE b[1]) - borrow
         IN <<t % LimbBase>>
            \o SubBorrow(Tail(a), IF b = <<>> THEN <<>> ELSE Tail(b),
                         IF t < 0 THEN 1 ELSE 0)

Distance(a, b) ==
    IF Less(a, b) THEN Trim(SubBorrow(b, a, 0)) ELSE Trim(SubBorrow(a, b, 0))

\* |x - y| < 10^-decimals, for numbers x and y
WithinOneUnit(x, y, decimals) ==
    LET e == IF x.e < y.e THEN x.e ELSE y.e
        d == Distance(ShiftLeft(x.m, x.e - e), ShiftLeft(y.m, y.e - e))
    IN IF e >= 0 THEN d = <<>>
       ELSE BitLength(MulPow10(d, decimals)) <= -e

\* C21: toAtomicUnits(amount, decimals) is the decimal string of
\* floor(amount * 10^decimals) for every non-negative amount with a finite
\* decimal expansion, and fromAtomicUnits of the result differs from the
\* amount by less than one atomic unit
AtomicUnitsAreTheFloor ==
    Applied("toAtomicUnits") =>
        /\ libraryCall.value =
             ToString(ExactFloor(libraryCall.args[1], libraryCall.args[2]))
        /\ WithinOneUnit(fromAtomicUnits(libraryCall.value, libraryCall.args[2]),
                         NumberOf(libraryCall.args[1]), libraryCall.args[2])
----------------------------------------------------------------------------
\* Properties of the payload and of the transaction

\* the retry of a negotiation of the second generation
V2RetrySent == protocolVersion = 2 /\ Len(calls) = 2

RetryHeaderValue(name) == (CHOOSE e \in RetryEntries(name) : TRUE)[2]

\* C22: in the v2 flow the PAYMENT-SIGNATURE header, decoded from base64 and
\* then from JSON, is a payload whose `accepted` is the requirement the client
\* selected from the challenge, field for field, whose resource.url is the
\* requested URL and whose payload.transaction is the base64 of the signed
\* transaction's serialized bytes
RequirementEchoed ==
    V2RetrySent =>
        /\ RetryEntries("PAYMENT-SIGNATURE") # {}
        /\ IsBase64(RetryHeaderValue("PAYMENT-SIGNATURE"))
        /\ IsJSON(safeBase64Decode(RetryHeaderValue("PAYMENT-SIGNATURE")))
        /\ LET sent == RetryPayload("PAYMENT-SIGNATURE")
           IN /\ sent.accepted = selectedRequirements
              /\ \E i \in 1..Len(Offered) :
                    /\ Offered[i] = sent.accepted
                    /\ \A j \in 1..(i - 1) :
                          ~(Offered[j].scheme = "exact"
                            /\ isSolanaNetwork(Offered[j].network))
              /\ sent.resource.url = input.url
              /\ sent.payload.transaction = Base64Encode(Serialize(signedTransaction))
              /\ signedTransaction # UnsetTransaction

\* a v2 retry that echoes a requirement offered second in the challenge
SecondOfferEchoed ==
    /\ V2RetrySent
    /\ Len(Offered) >= 2
    /\ RetryPayload("PAYMENT-SIGNATURE").accepted = Offered[2]
    /\ Offered[2] # Offered[1]
\* the instruction is one of the compute budget program, of the given type
IsComputeBudget(instruction, type) ==
    instruction.programId = COMPUTE_BUDGET_PROGRAM_ID /\ instruction.type = type

\* the instructions start with the limit and the price, in that order
StartsWithComputeBudget(instructions) ==
    /\ Len(instructions) >= 2
    /\ IsComputeBudget(instructions[1], "SetComputeUnitLimit")
    /\ IsComputeBudget(instructions[2], "SetComputeUnitPrice")

\* C23: every transaction handed to the wallet has the set-compute-unit-limit
\* instruction at index 0, the set-compute-unit-price instruction at index 1,
\* the token transfer at index 2 and no other instruction; nothing is inserted
\* before or between the two compute budget instructions while it is built
ComputeBudgetLeads ==
    /\ \A i \in 1..Len(signCalls) :
         LET instructions == signCalls[i].message.instructions
         IN /\ Len(instructions) = 3
            /\ StartsWithComputeBudget(instructions)
            /\ instructions[1].value = DEFAULT_COMPUTE_UNIT_LIMIT
            /\ instructions[2].value = DEFAULT_COMPUTE_UNIT_PRICE_MICROLAMPORTS
            /\ instructions[3].type = "TransferChecked"
            /\ instructions[3].programId \in {TOKEN_PROGRAM_ID, TOKEN_2022_PROGRAM_ID}
    /\ tx.instructions # <<>> => StartsWithComputeBudget(tx.instructions)
    /\ signedTransaction # UnsetTransaction =>
         StartsWithComputeBudget(signedTransaction.message.instructions)

\* a transaction of three instructions was handed to the wallet
ThreeInstructionsHandedOver ==
    /\ Len(signCalls) = 1
    /\ Len(signCalls[1].message.instructions) = 3
    /\ signCalls[1].message.instructions[3].type = "TransferChecked"
    /\ tx.step = "signing"
\* the types of the instructions the builder knows
PaymentInstructionTypes == {"SetComputeUnitLimit", "SetComputeUnitPrice", "TransferChecked"}

\* assembly failed with the error, before the wallet and without a retry
AssemblyFailedWith(error) ==
    /\ pc = "FAILED"
    /\ result = Threw(error)
    /\ signCalls = <<>>
    /\ signedTransaction = UnsetTransaction
    /\ Len(calls) = 1
    /\ inFlight = 0

\* C24: when the payer's source token account or the receiver's destination
\* token account does not exist on the ledger, assembly fails with the
\* corresponding error, signTransaction is not invoked, no retry is sent, and
\* no account-creation instruction is ever added to a transaction
MissingAccountFailsFast ==
    /\ tx.sourceAtaInfo = "null" =>
         AssemblyFailedWith("User does not have an Associated Token Account")
    /\ tx.destAtaInfo = "null" =>
         AssemblyFailedWith("Destination does not have an Associated Token Account")
    /\ \A i \in 1..Len(tx.instructions) :
         tx.instructions[i].type \in PaymentInstructionTypes
    /\ \A i \in 1..Len(signCalls) :
         \A j \in 1..Len(signCalls[i].message.instructions) :
             signCalls[i].message.instructions[j].type \in PaymentInstructionTypes

\* the source account exists and the destination account does not
DestinationAccountMissing ==
    /\ tx.sourceAtaInfo = "account"
    /\ tx.destAtaInfo = "null"
    /\ pc = "FAILED"
    /\ Len(tx.instructions) = 2
----------------------------------------------------------------------------
\* Properties of the gateway's requests

FacilitatorPaths == {"/supported", "/verify", "/settle"}

\* C25: an X402PaymentHandler constructed with facilitatorUrl U, apiKeyId and
\* apiKeySecret makes its gateway send the discovery, verification and
\* settlement requests to U/supported, U/verify and U/settle, each carrying the
\* bearer token obtained from those credentials
HandlerRequestsGoToFacilitator ==
    \A i \in 1..Len(facilitatorCalls) :
        /\ facilitatorCalls[i].url[1] = serverConfig.facilitatorUrl
        /\ facilitatorCalls[i].url[2] \in FacilitatorPaths
        /\ (serverConfig.apiKeyId # "" /\ serverConfig.apiKeySecret # "") =>
             /\ facilitatorCalls[i].authorization = "Bearer jwt"
             /\ tokenRequests >= i
\* the client holds both credentials
BothCredentials == facilitatorClient.apiKeyId # "" /\ facilitatorClient.apiKeySecret # ""

\* C26: a FacilitatorClient configured with both apiKeyId and apiKeySecret
\* sends each request (GET /supported, POST /verify, POST /settle) only after
\* a token has been obtained, with 'Authorization: Bearer <token>'; when either
\* credential is missing, no token is requested and no Authorization header
\* is sent
TokenBeforeEveryRequest ==
    /\ BothCredentials =>
         /\ Len(facilitatorCalls) <= tokenRequests
         /\ facilitatorCalls # <<>> => gateway.tokenOk
         /\ \A i \in 1..Len(facilitatorCalls) :
              /\ facilitatorCalls[i].authorization = "Bearer jwt"
              /\ facilitatorCalls[i].url[2] \in FacilitatorPaths
    /\ ~BothCredentials =>
         /\ tokenRequests = 0
         /\ \A i \in 1..Len(facilitatorCalls) : facilitatorCalls[i].authorization = ""

\* a settlement request sent with the token of both credentials
SettleSentWithToken ==
    /\ BothCredentials
    /\ gateway.op = "settlePayment"
    /\ Len(facilitatorCalls) = 1
    /\ facilitatorCalls[1].url[2] = "/settle"
    /\ tokenRequests = 1
----------------------------------------------------------------------------
\* Properties of client and server together

\* the headers of a request as the server's route receives them: a Headers
\* object, its names in lower case
AsReceived(headers) ==
    [kind |-> "Headers",
     entries |-> { <<LowerCase(e[1]), e[2]>> : e \in headers.entries }]

\* C27: for each wire generation, the header name under which the negotiator
\* attaches the payment on its retry (PAYMENT-SIGNATURE after a header-carried
\* challenge, X-PAYMENT after a body-carried one) is one extractPayment
\* returns a non-null value for, so that the retry reaches verification
RetryPaymentIsExtracted ==
    Len(calls) = 2 =>
        /\ RetryEntries(HeaderNameFor(protocolVersion)) # {}
        /\ Truthy(extractPayment(AsReceived(calls[2].init.headers)))
----------------------------------------------------------------------------
\* Properties of the selection and of the negotiation's steps

\* the entry has scheme 'exact' and a network of the Solana family
ExactOnSolana(req) ==
    /\ req.scheme = "exact"
    /\ req.network \in {Solana, SolanaDevnet} \/ HasSolanaPrefix(req.network)

\* the selection has been made
Selected == protocolVersion # 0 /\ pc # "SELECTING"

\* C28: the negotiator selects the lowest-index entry of the accepts list whose
\* scheme is 'exact' and whose network is in the Solana family; entries before
\* it that fail either test are skipped, entries after it are ignored even if
\* they are cheaper, and a challenge without an accepts list offers nothing
FirstSuitableSelected ==
    Selected =>
        /\ ~paymentRequired.hasAccepts => selectedRequirements = UnsetRequirement
        /\ \A i \in 1..Len(Offered) :
             (ExactOnSolana(Offered[i]) /\ \A j \in 1..(i - 1) : ~ExactOnSolana(Offered[j]))
                 => selectedRequirements = Offered[i]
        /\ (\A i \in 1..Len(Offered) : ~ExactOnSolana(Offered[i])) =>
             /\ selectedRequirements = UnsetRequirement
             /\ pc = "FAILED"

\* the first of two suitable entries was selected although the second is cheaper
DearerFirstEntrySelected ==
    /\ Selected
    /\ Len(Offered) = 2
    /\ ExactOnSolana(Offered[1]) /\ ExactOnSolana(Offered[2])
    /\ BigInt(Offered[2].amount) < BigInt(Offered[1].amount)
    /\ selectedRequirements = Offered[1]

\* the order of the steps of createPaymentFetch (lines 211, 215-216, 227-239,
\* 249, 264-273, 281, 292-307, 322-325)
StepsInOrder ==
    { <<"INIT", "REQUESTED">>, <<"REQUESTED", "DONE">>,
      <<"REQUESTED", "CHALLENGED">>, <<"CHALLENGED", "SELECTING">>,
      <<"SELECTING", "CEILING">>, <<"CEILING", "BUILDING">>,
      <<"BUILDING", "ENCODING">>, <<"ENCODING", "RETRYING">>,
      <<"RETRYING", "DONE">> }

\* the steps in which an await can reject or a statement can throw
FailingSteps ==
    {"REQUESTED", "CHALLENGED", "SELECTING", "CEILING", "BUILDING", "RETRYING"}

\* the steps that select, check the ceiling and assemble
SelectionAndAssembly == {"SELECTING", "CEILING", "BUILDING"}

\* a step of the negotiation is the next one in order, a failure of one of
\* the given steps, or a step of the assembly, the only one made of several
Follows(failing) ==
    IF pc' = pc
    THEN pc = "BUILDING"
    ELSE <<pc, pc'>> \in StepsInOrder \cup { <<s, "FAILED">> : s \in failing }

\* C29: a negotiation follows INIT, REQUESTED, then either DONE or CHALLENGED,
\* SELECTING, the ceiling check, BUILDING, ENCODING, RETRYING, DONE, never
\* skipping or repeating a step; it ends in FAILED from SELECTING, from the
\* ceiling check and from BUILDING, and also from REQUESTED and RETRYING when
\* the transport rejects and from CHALLENGED when the challenge cannot be
\* decoded; INIT and ENCODING never fail
NegotiationInOrder == [][Follows(FailingSteps)]_vars

\* C29 as stated: failures come from SELECTING, the ceiling check and BUILDING
\* only
FailsInSelectionAndAssemblyOnly == [][Follows(SelectionAndAssembly)]_vars

\* the negotiation has failed while the challenge was decoded
FailedAtDecoding ==
    /\ pc = "FAILED"
    /\ Len(calls) = 1
    /\ protocolVersion = 0
    /\ result.error \in {"PAYMENT-REQUIRED header cannot be decoded",
                          "response body is not JSON"}

\* the two token programs
TokenPrograms == {TOKEN_PROGRAM_ID, TOKEN_2022_PROGRAM_ID}

\* the transfer instructions of a list of instructions
Transfers(instructions) ==
    { instructions[i] : i \in { n \in 1..Len(instructions) :
                                   instructions[n].type = "TransferChecked" } }

\* the mint has been read under the chosen program
MintRead == tx.step \in {"sourceAta", "destinationAta", "transfer", "sign", "signing"}

\* C30: the token program of the transfer instruction is the program that owns
\* the mint account as read from the ledger, Token-2022 for a mint of
\* Token-2022 and the classic program for a mint of the classic program; the
\* same program reads the mint and derives both token accounts, and no
\* transfer is built against a program other than the mint's owner
TransferAgainstMintOwner ==
    /\ (tx.programId # "" /\ tx.mintOwner \in TokenPrograms) =>
         tx.programId = tx.mintOwner
    /\ MintRead => tx.programId = tx.mintOwner /\ tx.mintOwner \in TokenPrograms
    /\ tx.sourceAta # <<>> =>
         tx.sourceAta = getAssociatedTokenAddress(selectedRequirements.asset,
                                                  tx.walletAddress, tx.mintOwner)
    /\ tx.destinationAta # <<>> =>
         tx.destinationAta = getAssociatedTokenAddress(selectedRequirements.asset,
                                                       selectedRequirements.payTo,
                                                       tx.mintOwner)
    /\ \A instructions \in
            {tx.instructions, signedTransaction.message.instructions}
            \cup { signCalls[i].message.instructions : i \in 1..Len(signCalls) } :
         \A transfer \in Transfers(instructions) :
            /\ transfer.programId = tx.mintOwner
            /\ transfer.programId \in TokenPrograms
            /\ transfer.keys.mint = selectedRequirements.asset
            /\ transfer.keys.source = tx.sourceAta
            /\ transfer.keys.destination = tx.destinationAta

\* a transfer of a Token-2022 mint was built against Token-2022
Token2022TransferBuilt ==
    /\ tx.mintOwner = TOKEN_2022_PROGRAM_ID
    /\ Transfers(tx.instructions) # {}
    /\ \A transfer \in Transfers(tx.instructions) :
         transfer.programId = TOKEN_2022_PROGRAM_ID
----------------------------------------------------------------------------
\* Properties of the assembly's reads, amount and signing

\* how many of the ledger reads made so far are among the given ones
ReadsOf(reads) == Cardinality({ i \in 1..Len(ledgerReads) : ledgerReads[i] \in reads })

\* the reads of the mint account: line 573 for its owner, line 580 for its data
MintReads == {"getAccountInfo(mint)", "getMint(mint)"}

\* C31: one call of createSolanaPaymentTransaction reads the ledger exactly
\* once for the mint and exactly once for each of the two token accounts, and
\* each read is made before the decision that depends on it
OneLedgerReadEach ==
    /\ tx.step \in {"sourceAta", "destinationAta", "transfer", "sign", "signing"} =>
         ReadsOf(MintReads) = 1
    /\ tx.step \in {"destinationAta", "transfer", "sign", "signing"} =>
         ReadsOf({"getAccountInfo(sourceAta)"}) = 1
    /\ tx.step \in {"transfer", "sign", "signing"} =>
         ReadsOf({"getAccountInfo(destinationAta)"}) = 1
    /\ tx.programId # "" => ReadsOf(MintReads) >= 1

MissingAmountError == "Missing amount in payment requirements"

\* the transfers of every transaction handed to the wallet
SignedTransfers ==
    UNION { Transfers(signCalls[i].message.instructions) : i \in 1..Len(signCalls) }

\* C32: the transfer amount is the requirement's amount taken verbatim, or the
\* legacy maxAmountRequired when amount is absent; it is the value compared
\* against the ceiling, so nothing above a ceiling is handed to the wallet, and
\* a requirement with neither field fails with 'Missing amount in payment
\* requirements' without the wallet signing
TransferAmountVerbatim ==
    LET req == selectedRequirements
    IN /\ \A transfer \in SignedTransfers \cup Transfers(tx.instructions) :
            /\ req.amount # "" => ToString(transfer.value) = req.amount
            /\ req.amount = "" => ToString(transfer.value) = req.maxAmountRequired
            /\ transfer.value = SelectedAmount
            /\ maxValue > 0 => transfer.value <= maxValue
            /\ transfer.decimals = tx.decimals
       /\ (req # UnsetRequirement /\ req.amount = "" /\ req.maxAmountRequired = "") =>
            /\ signCalls = <<>>
            /\ Len(calls) = 1
            /\ tx.step \notin {"sign", "signing"}
            /\ (pc = "FAILED" /\ tx.step = "transfer") =>
                 result = Threw(MissingAmountError)
       /\ result = Threw(MissingAmountError) =>
            req.amount = "" /\ req.maxAmountRequired = ""

\* a transfer for the legacy amount was handed to the wallet under a ceiling
LegacyAmountSigned ==
    /\ selectedRequirements.amount = ""
    /\ selectedRequirements.maxAmountRequired # ""
    /\ maxValue > 0
    /\ SignedTransfers # {}

NoSignTransactionError == "Connected wallet does not support signTransaction"

\* C33: a wallet without signTransaction makes the assembly fail with
\* 'Connected wallet does not support signTransaction', no transaction is
\* returned and no retry sent; a wallet that signs has its result returned as
\* it is, and it is called only after the fee payer, the wallet address,
\* payTo, the asset, both token accounts and the amount have been validated
SigningIsLastAndUnchanged ==
    /\ ~wallet.canSign =>
         /\ signCalls = <<>>
         /\ signedTransaction = UnsetTransaction
         /\ Len(calls) <= 1
         /\ (pc = "FAILED" /\ tx.step = "sign") => result = Threw(NoSignTransactionError)
    /\ result = Threw(NoSignTransactionError) => ~wallet.canSign /\ tx.step = "sign"
    /\ signCalls # <<>> =>
         /\ Len(signCalls) = 1
         /\ wallet.canSign
         /\ IsPublicKey(selectedRequirements.extra.feePayer)
         /\ wallet.publicKey # "" \/ wallet.address # ""
         /\ IsPublicKey(selectedRequirements.payTo)
         /\ IsPublicKey(selectedRequirements.asset)
         /\ tx.sourceAtaInfo = "account" /\ tx.destAtaInfo = "account"
         /\ \E n \in 0..(MaxAmount + 1) :
               ToString(n) \in {selectedRequirements.amount,
                                selectedRequirements.maxAmountRequired}
         /\ ReadsOf({"getLatestBlockhash"}) = 1
    /\ signedTransaction # UnsetTransaction =>
         /\ signedTransaction.message = signCalls[1].message
         /\ Len(calls) = 2 =>
              RetryPayload(HeaderNameFor(protocolVersion)).payload.transaction
                  = Base64Encode(Serialize(signedTransaction))

\* what the wallet returned carries no signature and was sent all the same
WalletResultSentAsIs ==
    /\ Len(calls) = 2
    /\ Len(signCalls) = 1
    /\ signedTransaction.signatures = {}
----------------------------------------------------------------------------
\* Properties of the gateway's token and of discovery

\* the operation asked for a token and did not get one
TokenRefused ==
    /\ gateway.op # ""
    /\ BothCredentials
    /\ tokenRequests >= 1
    /\ ~gateway.tokenOk

\* C34: when credentials are configured and the token cannot be obtained, the
\* failure is raised to the caller by every gateway operation and is not
\* reported as a verification or settlement result
TokenFailureIsRaised ==
    TokenRefused =>
        /\ spc = "threw"
        /\ gateway.threw
        /\ facilitatorCalls = <<>>
        /\ verified # LocalVerifyError
        /\ settlement.errorReason # "unexpected_settle_error"

\* the fee payers the latest discovery answer offers
DiscoveredFeePayers ==
    IF gateway.answer.networkError \/ ~IsJSON(gateway.answer.body) THEN {}
    ELSE { AnsweredKinds[i].extra.feePayer : i \in 1..Len(AnsweredKinds) }

\* C35: discovery is never cached: every createPaymentRequirements call sends
\* exactly one GET /supported, so the route sends one for each request it
\* answers, with or without a payment, and the requirement built for a request
\* carries a fee payer of the answer discovery gave for that very request
DiscoveryNeverCached ==
    /\ CallsOf("createPaymentRequirements") = RequestsTo("/supported")
    /\ spc \notin {"extract", "requirements"} => RequestsTo("/supported") = 1
    /\ \A i \in 1..Len(served) :
         served[i].builds = 1 /\ served[i].discoveries = 1
    /\ paymentRequirements # UnsetRequirement =>
         /\ gateway.op = "getFeePayer"
         /\ paymentRequirements.extra.feePayer = gateway.feePayer
         /\ paymentRequirements.extra.feePayer \in DiscoveredFeePayers

\* the second request was given another fee payer than the first, which
\* carried no payment
FeePayerChangedBetweenBuilds ==
    /\ Len(served) = 1
    /\ ~served[1].paid
    /\ served[1].paymentRequirements # UnsetRequirement
    /\ paymentRequirements # UnsetRequirement
    /\ paymentRequirements.extra.feePayer # served[1].paymentRequirements.extra.feePayer

\* the first request carried no payment and was answered with a challenge,
\* and the payment of the second has been handed to verifyPayment
PaidRetryVerified ==
    /\ Len(served) = 1
    /\ ~served[1].paid
    /\ served[1].httpResponse.kind = "challenge"
    /\ CallsOf("verifyPayment") = 1

\* C36: over the two requests of one payment, the requirement the server
\* passes to verifyPayment and settlePayment is the requirement it offered in
\* the challenge, also when the fee payer discovery answers with has changed
\* between the two requests
VerifiedAgainstOfferedTerms ==
    PaidRetryVerified =>
        /\ served[1].httpResponse.accepts = <<paymentRequirements>>
        /\ \A i \in 1..Len(facilitatorCalls) :
             facilitatorCalls[i].url[2] \in {"/verify", "/settle"} =>
                 JSONparse(facilitatorCalls[i].body).paymentRequirements
                     = served[1].httpResponse.accepts[1]
----------------------------------------------------------------------------
\* Properties of the retry, of concurrent negotiations and of termination

\* the retry carries a header of the name with the value, names compared
\* without regard to case as HTTP does
RetryCarries(name, value) ==
    \E e \in calls[2].init.headers.entries :
        LowerCase(e[1]) = LowerCase(name) /\ e[2] = value

\* C37: the retry is the original request with the payment header attached and
\* nothing else changed: the same input, method and body, and every header the
\* caller supplied, whether as a plain object, a Headers instance or a list of
\* pairs
RetryKeepsCallerHeaders ==
    Len(calls) = 2 =>
        /\ calls[2].input = calls[1].input
        /\ calls[2].init.method = calls[1].init.method
        /\ calls[2].init.body = calls[1].init.body
        /\ RetryEntries(HeaderNameFor(protocolVersion)) # {}
        /\ \A e \in calls[1].init.headers.entries : RetryCarries(e[1], e[2])

\* the challenge a call was answered with
ChallengeOf(n) ==
    IF n.protocolVersion = 2
    THEN JSONparse(safeBase64Decode(HeadersGet(n.response.headers, "PAYMENT-REQUIRED")))
    ELSE JSONparse(n.response.body)

\* the payment header of a call's retry
RetryHeaderOf(n) ==
    (CHOOSE e \in n.calls[2].init.headers.entries :
        e[1] = HeaderNameFor(n.protocolVersion))[2]

\* a call works on its own challenge, requirement, transaction and URL
OwnPayment(n) ==
    /\ Len(n.calls) <= 2
    /\ Len(n.signCalls) <= 1
    /\ \A i \in 1..Len(n.calls) : n.calls[i].input = n.input
    /\ n.protocolVersion = 0 =>
         n.paymentRequired = UnsetPaymentRequired
         /\ n.selectedRequirements = UnsetRequirement
    /\ n.protocolVersion # 0 => n.paymentRequired = ChallengeOf(n)
    /\ n.selectedRequirements # UnsetRequirement =>
         \E i \in 1..Len(n.paymentRequired.accepts) :
            n.paymentRequired.accepts[i] = n.selectedRequirements
    /\ \A i \in 1..Len(n.signCalls) :
         \A transfer \in Transfers(n.signCalls[i].message.instructions) :
            /\ ToString(transfer.value) = n.selectedRequirements.amount
            /\ transfer.keys.mint = n.selectedRequirements.asset
    /\ Len(n.calls) = 2 =>
         /\ n.signedTransaction.message = n.signCalls[1].message
         /\ RetryHeaderOf(n) =
                PaymentHeaderFor(n.protocolVersion, n.signedTransaction,
                                 n.selectedRequirements, n.input.url)

\* C38: two negotiations running concurrently through one client share no
\* mutable state: under every interleaving of their transport, ledger and
\* wallet steps, the retry of each carries a payment built from the
\* requirement selected in its own challenge and for its own URL, and each
\* makes at most two transport calls and at most one signing call
NegotiationsIndependent ==
    /\ OwnPayment(Locals)
    /\ OwnPayment(suspended)
    /\ input # suspended.input

\* one call has sent its retry while the other, answered with another
\* challenge, is in the middle of its assembly
RetrySentWhileOtherAssembles ==
    /\ Len(calls) = 2
    /\ suspended.pc = "BUILDING"
    /\ suspended.tx.step = "destinationAta"
    /\ suspended.selectedRequirements # selectedRequirements
    /\ suspended.protocolVersion # protocolVersion

\* the negotiation has returned a response or raised an error
Ended == pc \in {"DONE", "FAILED"} /\ result # NoResult

\* C39: when every transport call, ledger read and wallet signing call returns
\* or fails, every negotiation ends, by returning a response or by raising an
\* error, and stays ended: no step loops, polls or waits on anything but the
\* call it has issued
NegotiationEnds == <>[]Ended

\* a negotiation has ended after its longest course: two transport calls,
\* five ledger reads and the wallet
EndedAfterEveryStep ==
    /\ Ended
    /\ result.kind = "returned"
    /\ Len(calls) = 2
    /\ Len(ledgerReads) = 5
    /\ Len(signCalls) = 1

\* the client the suspended call belongs to
OtherClient == [config EXCEPT !.network = OtherNetwork(config.network)]

\* the call has made its selection
SelectionMade(n) == n.protocolVersion # 0 /\ n.pc # "SELECTING"

\* C40: requirement selection does not depend on the network the client was
\* configured with: two clients that differ in their configured network only
\* select the same requirement from the same challenge, and hold the same
\* wallet and ceiling; the configured network decides the default RPC endpoint
\* and nothing else
SelectionIgnoresConfiguredNetwork ==
    /\ (/\ SelectionMade(Locals) /\ SelectionMade(suspended)
        /\ response = suspended.response) =>
           /\ selectedRequirements = suspended.selectedRequirements
           /\ (pc = "FAILED" /\ consoleErrors # <<>>)
                <=> (suspended.pc = "FAILED" /\ suspended.consoleErrors # <<>>)
    /\ OtherClient.wallet = wallet
    /\ ClientMaxValue(OtherClient) = maxValue
    /\ ClientRpcUrl(OtherClient) # rpcUrl
    /\ \A n \in {Locals, suspended} :
         \A i \in 1..Len(n.signCalls) :
            \A transfer \in Transfers(n.signCalls[i].message.instructions) :
               ToString(transfer.value) = n.selectedRequirements.amount

\* the client configured for the devnet has asked the wallet to sign for a
\* requirement on the mainnet, the one the mainnet client selected too
DevnetClientSignsForMainnet ==
    /\ config.network = SolanaDevnet
    /\ selectedRequirements.network = SOLANA_MAINNET_CAIP2
    /\ Len(signCalls) = 1
    /\ suspended.selectedRequirements = selectedRequirements
    /\ rpcUrl = "https://api.devnet.solana.com"

====
